---- MODULE Spec2Model ----
(***************************************************************************)
(* The EVM interpreter of chain/core/vm (Interpreter.Run, its restriction  *)
(* check and its construction) as a state machine.  One EVM owns one       *)
(* Interpreter; an invocation of Run is a frame on `frames`, the last      *)
(* frame being the one whose loop is running.                              *)
(*                                                                         *)
(* Machine words are 256 bits wide and the gas counter 64 bits wide in the *)
(* program.  TLC's integers are 32 bits wide, so both widths are narrowed  *)
(* and named: WordModulus for a stack word, MaxUint64 for a uint64.        *)
(***************************************************************************)
EXTENDS Integers, Sequences, FiniteSets, TLC

\* ------------------------------------------------------------------ bounds

\* Programs of up to this many bytes over OpAlphabet are all run.
MaxCodeLen == 2
\* The gas budgets: 0..SmallGas for the programs that are all run, 0..MidGas
\* for the picked ones, BigGas for the costly ones.
SmallGas == 6
MidGas == 24
BigGas == 30000
\* The pushes in a round of the program that fills the stack.
FillRun == 30
\* A stack word has WordBits bits (256 in the program), a uint64 Uint64Bits
\* bits (64 in the program).
WordBits == 28
Uint64Bits == 24

WordModulus == 2 ^ WordBits
MaxUint64 == 2 ^ Uint64Bits - 1

\* ------------------------------------------------------- program constants

StackLimit == 1024
CallCreateDepth == 1024
QuadCoeffDiv == 512
MemoryGas == 3
JumpdestGas == 1
SstoreSetGas == 20000
SstoreResetGas == 5000
SstoreClearGas == 5000
LogGas == 375
LogDataGas == 8
CallGas == 40
CallValueTransferGas == 9000
CallStipend == 2300

\* The gas tiers of the instruction table (ADD and PUSH1 cost 3).
GasQuickStep == 2
GasFastestStep == 3
GasMidStep == 8
GasSlowStep == 10

\* ------------------------------------------------------------------ opcodes

\* An opcode no instruction set holds.
INVALID == 12
STOP == 0
ADD == 1
RETURNDATASIZE == 61
POP == 80
MLOAD == 81
MSTORE == 82
MSTORE8 == 83
SSTORE == 85
JUMP == 86
JUMPI == 87
PC == 88
MSIZE == 89
GAS == 90
JUMPDEST == 91
PUSH1 == 96
PUSH2 == 97
PUSH4 == 99
DUP1 == 128
LOG0 == 160
CALL == 241
RETURN == 243
REVERT == 253

\* ------------------------------------------------------------------ helpers

Min(a, b) == IF a < b THEN a ELSE b
Max(a, b) == IF a > b THEN a ELSE b

Zeros(n) == [i \in 1..n |-> 0]

\* stack.Back(n): the n-th item from the top, the top being Back(0).
Back(stack, n) == stack[Len(stack) - n]

\* The stack without its n top items.
Drop(stack, n) == SubSeq(stack, 1, Len(stack) - n)

\* ------------------------------------------------------- instruction table

\* An operation descriptor: validity, the operands it pops and the results it
\* pushes (its stack validation), the names of its gas-cost and memory-size
\* functions, and its behaviour flags.
Desc(pop, push, gasFn, memFn, flags) ==
    [valid |-> TRUE, pop |-> pop, push |-> push, gasCost |-> gasFn,
     memorySize |-> memFn,
     writes |-> "writes" \in flags, returns |-> "returns" \in flags,
     reverts |-> "reverts" \in flags, halts |-> "halts" \in flags,
     jumps |-> "jumps" \in flags]

\* The zero value of an operation: the entry of an opcode a table lacks.
InvalidOperation ==
    [valid |-> FALSE, pop |-> 0, push |-> 0, gasCost |-> "zero",
     memorySize |-> "nil", writes |-> FALSE, returns |-> FALSE,
     reverts |-> FALSE, halts |-> FALSE, jumps |-> FALSE]

\* The Frontier and Homestead instruction sets agree on the opcodes modelled.
homesteadInstructionSet(op) ==
    CASE op = STOP     -> Desc(0, 0, "zero", "nil", {"halts"})
      [] op = ADD      -> Desc(2, 1, "fastest", "nil", {})
      [] op = POP      -> Desc(1, 0, "quick", "nil", {})
      [] op = MLOAD    -> Desc(1, 1, "mload", "mload", {})
      [] op = MSTORE   -> Desc(2, 0, "mstore", "mstore", {})
      [] op = MSTORE8  -> Desc(2, 0, "mstore8", "mstore8", {})
      [] op = SSTORE   -> Desc(2, 0, "sstore", "nil", {"writes"})
      [] op = JUMP     -> Desc(1, 0, "mid", "nil", {"jumps"})
      [] op = JUMPI    -> Desc(2, 0, "slow", "nil", {"jumps"})
      [] op = PC       -> Desc(0, 1, "quick", "nil", {})
      [] op = MSIZE    -> Desc(0, 1, "quick", "nil", {})
      [] op = GAS      -> Desc(0, 1, "quick", "nil", {})
      [] op = JUMPDEST -> Desc(0, 0, "jumpdest", "nil", {})
      [] op = PUSH1    -> Desc(0, 1, "fastest", "nil", {})
      [] op = PUSH2    -> Desc(0, 1, "fastest", "nil", {})
      [] op = PUSH4    -> Desc(0, 1, "fastest", "nil", {})
      [] op = DUP1     -> Desc(1, 2, "fastest", "nil", {})
      [] op = LOG0     -> Desc(2, 0, "log0", "log", {"writes"})
      [] op = CALL     -> Desc(7, 1, "call", "call", {"returns"})
      [] op = RETURN   -> Desc(2, 0, "return", "return", {"halts"})
      [] OTHER         -> InvalidOperation

\* Byzantium adds RETURNDATASIZE and REVERT to Homestead.
byzantiumInstructionSet(op) ==
    CASE op = RETURNDATASIZE -> Desc(0, 1, "quick", "nil", {})
      [] op = REVERT         -> Desc(2, 0, "revert", "revert", {"reverts", "returns"})
      [] OTHER               -> homesteadInstructionSet(op)

\* A table of the caller's own: the Byzantium set with JUMP flagged
\* reverts, halts and returns besides jumps, and REVERT flagged halts
\* besides reverts.
flaggedInstructionSet(op) ==
    CASE op = JUMP   -> Desc(1, 0, "mid", "nil",
                             {"jumps", "reverts", "halts", "returns"})
      [] op = REVERT -> Desc(2, 0, "revert", "revert",
                             {"reverts", "returns", "halts"})
      [] OTHER       -> byzantiumInstructionSet(op)

\* cfg.JumpTable[op] for a table named "homestead", "byzantium" or
\* "flagged".
JumpTable(table, op) ==
    IF table = "byzantium" THEN byzantiumInstructionSet(op)
    ELSE IF table = "flagged" THEN flaggedInstructionSet(op)
    ELSE homesteadInstructionSet(op)

\* operation.validateStack: enough operands, and room for the results.
validateStack(operation, stack) ==
    IF Len(stack) < operation.pop THEN "stack underflow"
    ELSE IF Len(stack) + operation.push - operation.pop > StackLimit
         THEN "stack limit reached"
    ELSE "nil"

\* ------------------------------------------------------------ safe maths

\* bigUint64: the low bits of a big integer, and whether it has more.
bigUint64(v) == [v |-> v % (MaxUint64 + 1), overflow |-> v > MaxUint64]

\* math.SafeAdd and math.SafeMul on uint64.
SafeAdd(x, y) == [v |-> (x + y) % (MaxUint64 + 1), overflow |-> x + y > MaxUint64]
SafeMul(x, y) == [v |-> (x * y) % (MaxUint64 + 1), overflow |-> x * y > MaxUint64]

\* toWordSize: the number of 32-byte words that hold size bytes.
toWordSize(size) ==
    IF size > MaxUint64 - 31 THEN MaxUint64 \div 32 + 1
    ELSE (size + 31) \div 32

\* ------------------------------------------------------------------ memory

\* Variant of Resize that sets the size to what is asked for.
ResizeExact(mem, size) ==
    IF Len(mem) < size THEN mem \o Zeros(size - Len(mem))
    ELSE SubSeq(mem, 1, size)

\* Memory.Resize: grow to size bytes, zero-filled; never shrink.
Resize(mem, size) ==
    IF Len(mem) < size THEN mem \o Zeros(size - Len(mem)) ELSE mem

\* Memory.Get: a copy of size bytes at offset.
MemGet(mem, offset, size) ==
    IF size = 0 THEN <<>> ELSE SubSeq(mem, offset + 1, offset + size)

\* Memory.Set: copy value over the size bytes at offset.
MemSet(mem, offset, size, value) ==
    [i \in 1..Len(mem) |->
        IF i > offset /\ i <= offset + Min(size, Len(value))
        THEN value[i - offset] ELSE mem[i]]

\* math.PaddedBigBytes(v, 32): a word as 32 bytes, big-endian.
PaddedBigBytes(v) ==
    [i \in 1..32 |-> IF i < 29 THEN 0 ELSE (v \div (256 ^ (32 - i))) % 256]

\* big.Int.SetBytes on 32 bytes, kept to the width of a word.
RECURSIVE SetBytesFrom(_, _, _)
SetBytesFrom(bytes, i, acc) ==
    IF i > Len(bytes) THEN acc
    ELSE SetBytesFrom(bytes, i + 1,
                      (acc % (WordModulus \div 256)) * 256 + bytes[i])
SetBytes(bytes) == SetBytesFrom(bytes, 1, 0)

\* calcMemSize: offset + length, 0 for an empty range.
calcMemSize(off, l) == IF l = 0 THEN 0 ELSE off + l

\* operation.memorySize(stack): the bytes of memory the step needs.
memorySize(operation, stack) ==
    CASE operation.memorySize = "mload"   -> calcMemSize(Back(stack, 0), 32)
      [] operation.memorySize = "mstore"  -> calcMemSize(Back(stack, 0), 32)
      [] operation.memorySize = "mstore8" -> calcMemSize(Back(stack, 0), 1)
      [] operation.memorySize = "return"  -> calcMemSize(Back(stack, 0), Back(stack, 1))
      [] operation.memorySize = "revert"  -> calcMemSize(Back(stack, 0), Back(stack, 1))
      [] operation.memorySize = "log"     -> calcMemSize(Back(stack, 0), Back(stack, 1))
      [] operation.memorySize = "call"    ->
            Max(calcMemSize(Back(stack, 5), Back(stack, 6)),
                calcMemSize(Back(stack, 3), Back(stack, 4)))
      [] OTHER -> 0

\* ------------------------------------------------------------------ gas

\* The largest word count whose square fits a uint64.
MaxMemoryWords == 2 ^ (Uint64Bits \div 2) - 1

\* The total fee of a memory of w words.
MemoryFee(w) == w * MemoryGas + (w * w) \div QuadCoeffDiv

\* Variant of memoryGasCost that divides the difference of the squares.
memoryGasCostOfDifference(mem, newMemSize) ==
    IF newMemSize = 0 THEN [cost |-> 0, err |-> "nil"]
    ELSE IF newMemSize > 32 * MaxMemoryWords
         THEN [cost |-> 0, err |-> "gas uint64 overflow"]
    ELSE IF toWordSize(newMemSize) * 32 > Len(mem)
         THEN [cost |-> MemoryGas * (toWordSize(newMemSize) - Len(mem) \div 32)
                        + (toWordSize(newMemSize) * toWordSize(newMemSize)
                           - (Len(mem) \div 32) * (Len(mem) \div 32))
                          \div QuadCoeffDiv,
               err |-> "nil"]
    ELSE [cost |-> 0, err |-> "nil"]

\* memoryGasCost: the fee of growing the memory to newMemSize bytes.
memoryGasCost(mem, newMemSize) ==
    IF newMemSize = 0 THEN [cost |-> 0, err |-> "nil"]
    ELSE IF newMemSize > 32 * MaxMemoryWords
         THEN [cost |-> 0, err |-> "gas uint64 overflow"]
    ELSE IF toWordSize(newMemSize) * 32 > Len(mem)
         THEN [cost |-> MemoryFee(toWordSize(newMemSize))
                        - MemoryFee(Len(mem) \div 32),
               err |-> "nil"]
    ELSE [cost |-> 0, err |-> "nil"]

\* A gas-cost function's result, with the overflow of its last addition.
GasSum(a, b) ==
    IF a.err # "nil" THEN a
    ELSE IF SafeAdd(a.cost, b).overflow
         THEN [cost |-> 0, err |-> "gas uint64 overflow"]
    ELSE [cost |-> a.cost + b, err |-> "nil"]

\* StateDB.GetState: the value of a slot <<address, location>>.
GetState(storage, loc) == IF loc \in DOMAIN storage THEN storage[loc] ELSE 0

\* gasSStore under the Homestead rules, for the slot of the contract at addr.
gasSStore(addr, stack, storage) ==
    IF GetState(storage, <<addr, Back(stack, 0)>>) = 0 /\ Back(stack, 1) # 0
    THEN SstoreSetGas
    ELSE IF GetState(storage, <<addr, Back(stack, 0)>>) # 0 /\ Back(stack, 1) = 0
         THEN SstoreClearGas
    ELSE SstoreResetGas

\* gasCall under the Homestead gas table: the call's own cost, the value
\* transfer surcharge, the memory fee and the gas handed to the callee.
gasCall(stack, mem, memSize) ==
    IF Back(stack, 0) > MaxUint64
    THEN [cost |-> 0, err |-> "gas uint64 overflow"]
    ELSE GasSum(GasSum(memoryGasCost(mem, memSize),
                       CallGas + (IF Back(stack, 2) # 0
                                  THEN CallValueTransferGas ELSE 0)),
                Back(stack, 0))

\* makeGasLog(0): the memory fee, LogGas and LogDataGas per byte of data.
gasLog0(stack, mem, memSize) ==
    IF bigUint64(Back(stack, 1)).overflow
    THEN [cost |-> 0, err |-> "gas uint64 overflow"]
    ELSE IF SafeMul(bigUint64(Back(stack, 1)).v, LogDataGas).overflow
         THEN [cost |-> 0, err |-> "gas uint64 overflow"]
    ELSE GasSum(GasSum(memoryGasCost(mem, memSize), LogGas),
                SafeMul(bigUint64(Back(stack, 1)).v, LogDataGas).v)

\* operation.gasCost(gasTable, evm, contract, stack, mem, memorySize).
gasCost(operation, addr, stack, mem, memSize, storage) ==
    CASE operation.gasCost = "zero"     -> [cost |-> 0, err |-> "nil"]
      [] operation.gasCost = "jumpdest" -> [cost |-> JumpdestGas, err |-> "nil"]
      [] operation.gasCost = "quick"    -> [cost |-> GasQuickStep, err |-> "nil"]
      [] operation.gasCost = "fastest"  -> [cost |-> GasFastestStep, err |-> "nil"]
      [] operation.gasCost = "mid"      -> [cost |-> GasMidStep, err |-> "nil"]
      [] operation.gasCost = "slow"     -> [cost |-> GasSlowStep, err |-> "nil"]
      [] operation.gasCost \in {"mload", "mstore", "mstore8"} ->
            GasSum(memoryGasCost(mem, memSize), GasFastestStep)
      [] operation.gasCost \in {"return", "revert"} ->
            memoryGasCost(mem, memSize)
      [] operation.gasCost = "sstore"   ->
            [cost |-> gasSStore(addr, stack, storage), err |-> "nil"]
      [] operation.gasCost = "log0"     -> gasLog0(stack, mem, memSize)
      [] operation.gasCost = "call"     -> gasCall(stack, mem, memSize)

\* Whether the cost of an operation is the same number in every state.
FixedCost(operation) ==
    operation.valid /\ operation.gasCost \in
        {"zero", "jumpdest", "quick", "fastest", "mid", "slow"}

\* ------------------------------------------------------------------ state

VARIABLES
    cfg,         \* in.cfg: Debug, DisableGasMetering, JumpTable
    chainRules,  \* in.evm.chainRules: IsByzantium
    readOnly,    \* in.readOnly
    returnData,  \* in.returnData
    depth,       \* in.evm.depth
    abort,       \* in.evm.abort
    stateDB,     \* the world state: storage, logs, value transferred
    callGasTemp, \* in.evm.callGasTemp: the gas the last CALL hands over
    frames,      \* the active invocations of Run, the running one last
    outer,       \* the outermost invocation: its code, gas and world state
    result,      \* what the outermost Run returned, and its contract's gas
    first,       \* what the first of the outermost invocations returned
    runs,        \* the outermost invocations so far
    last         \* the last iteration of a loop: the frame before and after

vars == <<cfg, chainRules, readOnly, returnData, depth, abort, stateDB,
          callGasTemp, frames, outer, result, first, runs, last>>

\* ------------------------------------------------------------ instructions

\* Variant of GetOp that has no opcode past the end of the code.
GetOpWithinCode(code, n) == IF n < Len(code) THEN code[n + 1] ELSE INVALID

\* Contract.GetOp: the opcode at byte n of the code, STOP past its end.
GetOp(code, n) == IF n < Len(code) THEN code[n + 1] ELSE STOP

\* jumpdests: the positions of the code that hold a JUMPDEST opcode and are
\* not an immediate byte of a PUSH.
RECURSIVE JumpdestsFrom(_, _)
JumpdestsFrom(code, n) ==
    IF n >= Len(code) THEN {}
    ELSE IF code[n + 1] = PUSH1 THEN JumpdestsFrom(code, n + 2)
    ELSE IF code[n + 1] = PUSH2 THEN JumpdestsFrom(code, n + 3)
    ELSE IF code[n + 1] = PUSH4 THEN JumpdestsFrom(code, n + 5)
    ELSE IF code[n + 1] = JUMPDEST THEN {n} \cup JumpdestsFrom(code, n + 1)
    ELSE JumpdestsFrom(code, n + 1)

\* destinations.has: whether dest is a valid jump destination of the code.
ValidJumpdest(code, dest) == dest \in JumpdestsFrom(code, 0)

\* What an execution function leaves: the program counter, the stack, the
\* memory and the world state, its result bytes and its error.
Executed(f, pc, stack, mem, db, res, err) ==
    [pc |-> pc, stack |-> stack, mem |-> mem, stateDB |-> db,
     res |-> res, err |-> err]

\* operation.execute(&pc, evm, contract, mem, stack) for every opcode but
\* CALL.  An execution function indexes the stack without checking it: on a
\* stack shorter than its operands the Go runtime panics.
execute(op, f) ==
    LET st == f.stack
        x  == Back(st, 0)
        y  == Back(st, 1)
        operation == JumpTable(cfg.JumpTable, op)
    IN
    IF Len(st) < operation.pop
    THEN Executed(f, f.pc, st, f.mem, stateDB, <<>>, "panic")
    ELSE
    CASE op = STOP ->
            Executed(f, f.pc, st, f.mem, stateDB, <<>>, "nil")
      [] op = ADD ->
            Executed(f, f.pc, Append(Drop(st, 2), (x + y) % WordModulus),
                     f.mem, stateDB, <<>>, "nil")
      [] op = POP ->
            Executed(f, f.pc, Drop(st, 1), f.mem, stateDB, <<>>, "nil")
      [] op = MLOAD ->
            Executed(f, f.pc,
                     Append(Drop(st, 1), SetBytes(MemGet(f.mem, x, 32))),
                     f.mem, stateDB, <<>>, "nil")
      [] op = MSTORE ->
            Executed(f, f.pc, Drop(st, 2),
                     MemSet(f.mem, x, 32, PaddedBigBytes(y)),
                     stateDB, <<>>, "nil")
      [] op = MSTORE8 ->
            Executed(f, f.pc, Drop(st, 2),
                     MemSet(f.mem, x, 1, <<y % 256>>),
                     stateDB, <<>>, "nil")
      [] op = SSTORE ->
            Executed(f, f.pc, Drop(st, 2), f.mem,
                     [stateDB EXCEPT !.storage = (<<f.address, x>> :> y) @@ @],
                     <<>>, "nil")
      [] op = JUMP ->
            IF ValidJumpdest(f.code, x)
            THEN Executed(f, x, Drop(st, 1), f.mem, stateDB, <<>>, "nil")
            ELSE Executed(f, f.pc, Drop(st, 1), f.mem, stateDB, <<>>,
                          "invalid jump destination")
      [] op = JUMPI ->
            IF y = 0
            THEN Executed(f, f.pc + 1, Drop(st, 2), f.mem, stateDB, <<>>, "nil")
            ELSE IF ValidJumpdest(f.code, x)
            THEN Executed(f, x, Drop(st, 2), f.mem, stateDB, <<>>, "nil")
            ELSE Executed(f, f.pc, Drop(st, 2), f.mem, stateDB, <<>>,
                          "invalid jump destination")
      [] op = PC ->
            Executed(f, f.pc, Append(st, f.pc), f.mem, stateDB, <<>>, "nil")
      [] op = MSIZE ->
            Executed(f, f.pc, Append(st, Len(f.mem)), f.mem, stateDB, <<>>, "nil")
      [] op = GAS ->
            Executed(f, f.pc, Append(st, f.gas), f.mem, stateDB, <<>>, "nil")
      [] op = JUMPDEST ->
            Executed(f, f.pc, st, f.mem, stateDB, <<>>, "nil")
      [] op = PUSH1 ->
            Executed(f, f.pc + 1,
                     Append(st, IF f.pc + 1 < Len(f.code)
                                THEN f.code[f.pc + 2] ELSE 0),
                     f.mem, stateDB, <<>>, "nil")
      [] op = PUSH2 ->
            Executed(f, f.pc + 2,
                     Append(st, 256 * (IF f.pc + 1 < Len(f.code)
                                       THEN f.code[f.pc + 2] ELSE 0)
                                + (IF f.pc + 2 < Len(f.code)
                                   THEN f.code[f.pc + 3] ELSE 0)),
                     f.mem, stateDB, <<>>, "nil")
      [] op = PUSH4 ->
            Executed(f, f.pc + 4,
                     Append(st, SetBytes([i \in 1..4 |->
                                    IF f.pc + i < Len(f.code)
                                    THEN f.code[f.pc + i + 1] ELSE 0])),
                     f.mem, stateDB, <<>>, "nil")
      [] op = DUP1 ->
            Executed(f, f.pc, Append(st, x), f.mem, stateDB, <<>>, "nil")
      [] op = LOG0 ->
            Executed(f, f.pc, Drop(st, 2), f.mem,
                     [stateDB EXCEPT !.logs = Append(@, MemGet(f.mem, x, y))],
                     <<>>, "nil")
      [] op = RETURNDATASIZE ->
            Executed(f, f.pc, Append(st, Len(returnData)), f.mem, stateDB,
                     <<>>, "nil")
      [] op = RETURN ->
            Executed(f, f.pc, Drop(st, 2), f.mem, stateDB,
                     MemGet(f.mem, x, y), "nil")
      [] op = REVERT ->
            Executed(f, f.pc, Drop(st, 2), f.mem, stateDB,
                     MemGet(f.mem, x, y), "nil")

\* --------------------------------------------------------- the interpreter

\* Variant of NewInterpreter that picks the table of the active fork.
NewInterpreterByFork(config) ==
    [Debug |-> config.Debug,
     DisableGasMetering |-> config.DisableGasMetering,
     JumpTable |-> IF config.JumpTable = "unset"
                   THEN (IF chainRules.IsByzantium THEN "byzantium"
                         ELSE "homestead")
                   ELSE config.JumpTable,
     supplied |-> config.JumpTable]

\* NewInterpreter: a configuration whose table was left uninitialised gets
\* the Homestead instruction set. The table the caller supplied is kept
\* beside the configuration.
NewInterpreter(config) ==
    [Debug |-> config.Debug,
     DisableGasMetering |-> config.DisableGasMetering,
     JumpTable |-> IF config.JumpTable = "unset" THEN "homestead"
                   ELSE config.JumpTable,
     supplied |-> config.JumpTable]

\* Variant of enforceRestrictions that checks value-carrying calls only.
enforceRestrictionsCallOnly(op, operation, stack) ==
    IF chainRules.IsByzantium /\ readOnly /\ op = CALL /\ Back(stack, 2) # 0
    THEN "write protection"
    ELSE "nil"

\* Variant of enforceRestrictions that reads the item under the top of the
\* stack as the value of a call.
enforceRestrictionsSecondItem(op, operation, stack) ==
    IF chainRules.IsByzantium
       /\ readOnly
       /\ (operation.writes \/ (op = CALL /\ Back(stack, 1) # 0))
    THEN "write protection"
    ELSE "nil"

\* Variant of enforceRestrictions that does not look at the chain rules.
enforceRestrictionsAnyFork(op, operation, stack) ==
    IF readOnly /\ (operation.writes \/ (op = CALL /\ Back(stack, 2) # 0))
    THEN "write protection"
    ELSE "nil"

\* Interpreter.enforceRestrictions.
enforceRestrictions(op, operation, stack) ==
    IF chainRules.IsByzantium
       /\ readOnly
       /\ (operation.writes \/ (op = CALL /\ Back(stack, 2) # 0))
    THEN "write protection"
    ELSE "nil"

\* Variant of RunMemorySize that does not look at the overflow of the
\* rounding.
RunMemorySizeWrapped(operation, stack) ==
    IF operation.memorySize = "nil"
    THEN [memorySize |-> 0, overflow |-> FALSE]
    ELSE IF bigUint64(memorySize(operation, stack)).overflow
         THEN [memorySize |-> 0, overflow |-> TRUE]
    ELSE [memorySize |->
              SafeMul(toWordSize(bigUint64(memorySize(operation, stack)).v), 32).v,
          overflow |-> FALSE]

\* Variant of RunMemorySize that keeps the size in bytes.
RunMemorySizeInBytes(operation, stack) ==
    IF operation.memorySize = "nil"
    THEN [memorySize |-> 0, overflow |-> FALSE]
    ELSE [memorySize |-> bigUint64(memorySize(operation, stack)).v,
          overflow |-> bigUint64(memorySize(operation, stack)).overflow]

\* Run, the memory size of a step: the size the operation asks for as a
\* uint64, rounded up to whole words.
RunMemorySize(operation, stack) ==
    IF operation.memorySize = "nil"
    THEN [memorySize |-> 0, overflow |-> FALSE]
    ELSE IF bigUint64(memorySize(operation, stack)).overflow
         THEN [memorySize |-> 0, overflow |-> TRUE]
    ELSE [memorySize |->
              SafeMul(toWordSize(bigUint64(memorySize(operation, stack)).v), 32).v,
          overflow |->
              SafeMul(toWordSize(bigUint64(memorySize(operation, stack)).v), 32).overflow]

\* Contract.UseGas: deduct the cost when the counter covers it.
UseGas(gas, cost) ==
    IF gas < cost THEN [ok |-> FALSE, gas |-> gas]
    ELSE [ok |-> TRUE, gas |-> gas - cost]

\* Variant of RunCharge that reports the error of the gas function.
RunChargeReportsError(operation, f, c) ==
    IF c.err # "nil" \/ ~UseGas(f.gas, c.cost).ok
    THEN [err |-> IF c.err # "nil" THEN c.err ELSE "out of gas",
          cost |-> c.cost, gas |-> f.gas,
          temp |-> operation.gasCost = "call" /\ c.err = "nil"]
    ELSE [err |-> "nil", cost |-> c.cost, gas |-> UseGas(f.gas, c.cost).gas,
          temp |-> operation.gasCost = "call"]

\* Variant of RunCharge that does not look at what UseGas reports.
RunChargeUnchecked(operation, f, c) ==
    IF c.err # "nil"
    THEN [err |-> "out of gas", cost |-> c.cost, gas |-> f.gas,
          temp |-> FALSE]
    ELSE [err |-> "nil", cost |-> c.cost, gas |-> UseGas(f.gas, c.cost).gas,
          temp |-> operation.gasCost = "call"]

\* Variant of RunCharge that checks the gas and deducts nothing.
RunChargeNoDeduct(operation, f, c) ==
    IF c.err # "nil" \/ ~UseGas(f.gas, c.cost).ok
    THEN [err |-> "out of gas", cost |-> c.cost, gas |-> f.gas,
          temp |-> operation.gasCost = "call" /\ c.err = "nil"]
    ELSE [err |-> "nil", cost |-> c.cost, gas |-> f.gas,
          temp |-> operation.gasCost = "call"]

\* Variant of RunCharge that asks for more gas than the cost.
RunChargeStrict(operation, f, c) ==
    IF c.err # "nil" \/ f.gas <= c.cost
    THEN [err |-> "out of gas", cost |-> c.cost, gas |-> f.gas,
          temp |-> operation.gasCost = "call" /\ c.err = "nil"]
    ELSE [err |-> "nil", cost |-> c.cost, gas |-> f.gas - c.cost,
          temp |-> operation.gasCost = "call"]

\* Run, the gas of a step whose cost function returned c: a failed
\* computation or too little gas is out of gas, else the cost is deducted.
\* temp tells that gasCall has set evm.callGasTemp.
RunCharge(operation, f, c) ==
    IF c.err # "nil" \/ ~UseGas(f.gas, c.cost).ok
    THEN [err |-> "out of gas", cost |-> c.cost, gas |-> f.gas,
          temp |-> operation.gasCost = "call" /\ c.err = "nil"]
    ELSE [err |-> "nil", cost |-> c.cost, gas |-> UseGas(f.gas, c.cost).gas,
          temp |-> operation.gasCost = "call"]

\* Variant of RunUseGas that always meters.
RunUseGasAlways(operation, f, memSize) ==
    RunCharge(operation, f,
              gasCost(operation, f.address, f.stack, f.mem, memSize,
                      stateDB.storage))

\* Variant of RunUseGas that never meters.
RunUseGasNever(operation, f, memSize) ==
    [err |-> "nil", cost |-> f.cost, gas |-> f.gas, temp |-> FALSE]

\* Run, the gas of a step: with metering off nothing is computed and cost
\* keeps the value it had.
RunUseGas(operation, f, memSize) ==
    IF cfg.DisableGasMetering
    THEN [err |-> "nil", cost |-> f.cost, gas |-> f.gas, temp |-> FALSE]
    ELSE RunCharge(operation, f,
                   gasCost(operation, f.address, f.stack, f.mem, memSize,
                           stateDB.storage))

\* Variant of the stack validation that checks the operands only.
RunValidateStackNoLimit(operation, stack) ==
    IF Len(stack) < operation.pop THEN "stack underflow" ELSE "nil"

\* Run, the stack validation of a step.
RunValidateStack(operation, stack) == validateStack(operation, stack)

\* Variant of RunCheck that enforces the restrictions before it validates
\* the stack.
RunCheckRestrictionsFirst(op, operation, stack) ==
    IF ~operation.valid THEN "invalid opcode"
    ELSE IF enforceRestrictions(op, operation, stack) # "nil"
    THEN enforceRestrictions(op, operation, stack)
    ELSE IF RunValidateStack(operation, stack) # "nil"
    THEN RunValidateStack(operation, stack)
    ELSE IF RunMemorySize(operation, stack).overflow
    THEN "gas uint64 overflow"
    ELSE "nil"

\* Run, the checks of a step that come before its gas, in their order: the
\* first error met, "nil" when there is none.
RunCheck(op, operation, stack) ==
    IF ~operation.valid THEN "invalid opcode"
    ELSE IF RunValidateStack(operation, stack) # "nil"
    THEN RunValidateStack(operation, stack)
    ELSE IF enforceRestrictions(op, operation, stack) # "nil"
    THEN enforceRestrictions(op, operation, stack)
    ELSE IF RunMemorySize(operation, stack).overflow
    THEN "gas uint64 overflow"
    ELSE "nil"

\* Run, the memory of a step: resized when the step needs any.
RunResize(mem, memSize) == IF memSize > 0 THEN Resize(mem, memSize) ELSE mem

\* Variant of Charged that resizes the memory before it looks at the gas.
ChargedResizeFirst(f, memSize, used) ==
    IF used.err # "nil"
    THEN [err |-> used.err, temp |-> used.temp,
          f |-> [f EXCEPT !.cost = used.cost, !.mem = RunResize(@, memSize)]]
    ELSE [err |-> "nil", temp |-> used.temp,
          f |-> [f EXCEPT !.cost = used.cost, !.gas = used.gas,
                          !.charged = @ + IF cfg.DisableGasMetering
                                          THEN 0 ELSE used.cost,
                          !.mem = RunResize(@, memSize)]]

\* Run, the step once its gas is settled: out of gas, or the frame with the
\* gas deducted and the memory resized.
Charged(f, memSize, used) ==
    IF used.err # "nil"
    THEN [err |-> used.err, temp |-> used.temp,
          f |-> [f EXCEPT !.cost = used.cost]]
    ELSE [err |-> "nil", temp |-> used.temp,
          f |-> [f EXCEPT !.cost = used.cost, !.gas = used.gas,
                          !.charged = @ + IF cfg.DisableGasMetering
                                          THEN 0 ELSE used.cost,
                          !.mem = RunResize(@, memSize)]]

\* What the tracer's CaptureState is handed of a step: the program counter,
\* the gas, the cost and the stack. NoCapture stands for no call so far.
CaptureState(pc, gas, cost, stack) ==
    [pc |-> pc, gas |-> gas, cost |-> cost, stack |-> stack]

NoCapture == CaptureState(0, 0, 0, <<>>)

\* Variant of StackCopy that pushes the entries from the top down.
RECURSIVE StackCopyReversed(_)
StackCopyReversed(data) ==
    IF data = <<>> THEN <<>>
    ELSE Append(StackCopyReversed(Tail(data)), Head(data))

\* Run, the copy of the stack made for the tracer: a new stack onto which
\* the entries of the stack are pushed from the bottom up.
RECURSIVE StackCopy(_)
StackCopy(data) ==
    IF data = <<>> THEN <<>>
    ELSE <<Head(data)>> \o StackCopy(Tail(data))

\* Variant of NewFrame that starts on the stack, the memory and the program
\* counter of the frame that is running.
NewFrameShared(addr, code, gas, call) ==
    [address |-> addr, code |-> code, gas |-> gas,
     pc |-> IF frames = <<>> THEN 0 ELSE frames[Len(frames)].pc,
     stack |-> IF frames = <<>> THEN <<>> ELSE frames[Len(frames)].stack,
     mem |-> IF frames = <<>> THEN <<>> ELSE frames[Len(frames)].mem,
     op |-> STOP, cost |-> 0, call |-> call,
     budget |-> gas, charged |-> 0, returned |-> 0, calls |-> 0,
     logged |-> FALSE, traced |-> 0,
     pcCopy |-> 0, gasCopy |-> 0, stackCopy |-> <<>>,
     captured |-> NoCapture]

\* The locals of Run at the head of its loop, for a contract and its gas.
\* With them go the accounts of the gas of the frame: the gas it was
\* entered with, the costs Run has deducted, the gas calls handed back and
\* the number of calls made.
NewFrame(addr, code, gas, call) ==
    [address |-> addr, code |-> code, gas |-> gas, pc |-> 0, stack |-> <<>>,
     mem |-> <<>>, op |-> STOP, cost |-> 0, call |-> call,
     budget |-> gas, charged |-> 0, returned |-> 0, calls |-> 0,
     logged |-> FALSE, traced |-> 0,
     pcCopy |-> 0, gasCopy |-> 0, stackCopy |-> <<>>,
     captured |-> NoCapture]

\* Variant of RunBegin whose copy empties the stack.
RunBeginDrainsStack(f) ==
    [f EXCEPT !.op = GetOp(f.code, f.pc),
              !.logged = IF cfg.Debug THEN FALSE ELSE @,
              !.pcCopy = IF cfg.Debug THEN f.pc ELSE @,
              !.gasCopy = IF cfg.Debug THEN f.gas ELSE @,
              !.stackCopy = IF cfg.Debug THEN StackCopy(f.stack) ELSE @,
              !.stack = IF cfg.Debug THEN <<>> ELSE @,
              !.traced = 0]

\* Run, the head of an iteration: the opcode is fetched and, when debugging,
\* logged is cleared for the step and the copies for the tracer are taken.
\* traced counts the calls of the tracer's CaptureState that the iteration
\* makes.
RunBegin(f) ==
    [f EXCEPT !.op = GetOp(f.code, f.pc),
              !.logged = IF cfg.Debug THEN FALSE ELSE @,
              !.pcCopy = IF cfg.Debug THEN f.pc ELSE @,
              !.gasCopy = IF cfg.Debug THEN f.gas ELSE @,
              !.stackCopy = IF cfg.Debug THEN StackCopy(f.stack) ELSE @,
              !.traced = 0]

\* Run, the capture of a step that is about to be executed: when debugging,
\* the tracer is called and the step marked as logged.
RunCapture(f) ==
    IF cfg.Debug
    THEN [f EXCEPT !.logged = TRUE, !.traced = @ + 1,
                   !.captured = CaptureState(f.pc, f.gasCopy, f.cost,
                                             f.stackCopy)]
    ELSE f

\* Variant of RunDeferredCapture that does not look at logged.
RunDeferredCaptureAlways(f, err) ==
    IF err # "nil" /\ cfg.Debug
    THEN [f EXCEPT !.traced = @ + 1,
                   !.captured = CaptureState(f.pcCopy, f.gasCopy, f.cost,
                                             f.stackCopy)]
    ELSE f

\* Run, the function deferred to its return with err: when debugging, the
\* tracer is called for a step that failed and was not logged.
RunDeferredCapture(f, err) ==
    IF err # "nil" /\ ~f.logged /\ cfg.Debug
    THEN [f EXCEPT !.traced = @ + 1,
                   !.captured = CaptureState(f.pcCopy, f.gasCopy, f.cost,
                                             f.stackCopy)]
    ELSE f

\* ------------------------------------------------------------------ inputs

\* The bytes of the programs that are all run.
OpAlphabet == {STOP, PC, JUMP, JUMPDEST, PUSH1, INVALID}

RECURSIVE CodesOfLen(_)
CodesOfLen(n) ==
    IF n = 0 THEN {<<>>}
    ELSE {Append(c, b) : c \in CodesOfLen(n - 1), b \in OpAlphabet}

\* The address of the outermost contract, and the accounts it can call.
Outer == 10
Returner == 1
Reverter == 2
Storer == 3

\* The code of the accounts of the world state; an account without code
\* otherwise.
AccountCode(addr) ==
    CASE addr = Returner -> <<PUSH1, 7, PUSH1, 0, MSTORE8, PUSH1, 1, PUSH1, 0, RETURN>>
      [] addr = Reverter -> <<PUSH1, 9, PUSH1, 1, MSTORE8, PUSH1, 2, PUSH1, 0, REVERT>>
      [] addr = Storer   -> <<PUSH1, 5, PUSH1, 0, SSTORE, PUSH1, 0, PUSH1, 0, LOG0>>
      [] OTHER           -> <<>>

\* A push of each of the values, the last pushed ending on top.
RECURSIVE Pushes(_)
Pushes(values) ==
    IF values = <<>> THEN <<>>
    ELSE (IF Head(values) < 256 THEN <<PUSH1, Head(values)>>
          ELSE IF Head(values) < 65536
          THEN <<PUSH2, Head(values) \div 256, Head(values) % 256>>
          ELSE <<PUSH4, (Head(values) \div 16777216) % 256,
                 (Head(values) \div 65536) % 256,
                 (Head(values) \div 256) % 256, Head(values) % 256>>)
         \o Pushes(Tail(values))

\* A CALL of addr with the gas and value given, its input the first byte of
\* memory and its output written over the first two.
CallOf(addr, gas, value) == Pushes(<<2, 0, 1, 0, value, addr, gas>>) \o <<CALL>>

\* Every program of up to MaxCodeLen bytes over OpAlphabet.
Short == UNION {CodesOfLen(n) : n \in 0..MaxCodeLen}

\* A program that jumps back for as long as it has gas.
Loop == <<JUMPDEST, PUSH1, 0, JUMP>>

\* A program that pushes for as long as it has gas and the stack has room.
Filler == <<JUMPDEST>> \o [i \in 1..FillRun |-> PC] \o <<PUSH1, 0, JUMP>>

\* Programs picked for what they reach: stack errors, jumps, memory, logs,
\* returns, reverts and cheap calls.
Picked ==
    { <<>>,
      <<ADD>>,
      <<SSTORE>>,
      <<PUSH1, 1, PUSH1, 0, PUSH1, 0, CALL>>,
      <<PUSH1, 1, PUSH1, 2, ADD, STOP>>,
      Loop,
      <<PUSH1, 4, JUMP, INVALID, JUMPDEST, PC>>,
      <<PUSH1, 3, JUMP, JUMPDEST>>,
      <<PUSH1, 3, JUMP, PC>>,
      <<PUSH1, 4, JUMP, PUSH1, JUMPDEST>>,
      <<PUSH1, 1, PUSH1, 5, JUMPI, JUMPDEST, PUSH1, 0, PUSH1, 5, JUMPI, GAS>>,
      <<PUSH1, 171, PUSH1, 0, MSTORE, PUSH1, 0, MLOAD, PUSH1, 33, MLOAD>>,
      <<PUSH1, 171, PUSH1, 31, MSTORE8, PUSH1, 32, PUSH1, 0, RETURN>>,
      <<PUSH1, 171, PUSH1, 1, MSTORE8, PUSH1, 3, PUSH1, 0, REVERT>>,
      <<PUSH1, 0, PUSH1, 0, REVERT>>,
      <<PUSH1, 0, DUP1, SSTORE>>,
      <<PUSH1, 40, PUSH1, 0, LOG0>>,
      CallOf(Returner, 30, 0) \o <<RETURNDATASIZE, PUSH1, 0, MLOAD>>,
      CallOf(Reverter, 30, 0) \o <<RETURNDATASIZE>>,
      CallOf(Returner, 30, 0) \o <<JUMP>>,
      <<RETURNDATASIZE, PUSH1, 5, MSTORE8>> \o CallOf(Returner, 30, 0)
          \o <<PUSH1, 1, PUSH1, 5, RETURN>> }

\* Programs run on a large gas budget only: a full stack, storage, logs, a
\* call that stores, a call that transfers value, memory that grows and
\* memory sizes that overflow.
Costly ==
    { Filler,
      <<PUSH1, 1, PUSH1, 0, SSTORE, PUSH1, 0, PUSH1, 0, SSTORE, RETURNDATASIZE>>,
      <<PUSH1, 2, PUSH1, 40, LOG0, MSIZE>>,
      Pushes(<<480>>) \o <<MLOAD>> \o Pushes(<<704>>) \o <<MLOAD>>,
      <<PUSH1, 33, MLOAD, PUSH1, 0, MSTORE8, MSIZE>>,
      Pushes(<<MaxUint64>>) \o <<MLOAD>>,
      Pushes(<<0, MaxUint64 - 1>>) \o <<MSTORE8>>,
      CallOf(Returner, MaxUint64 + 1, 0),
      CallOf(Storer, 20500, 0) \o CallOf(Returner, 30, 0),
      CallOf(0, 0, 3) \o <<GAS>> }

\* The picked programs, the loop among them, on every small budget.
PickedContracts == {[code |-> c, gas |-> g] : c \in Picked, g \in 0..MidGas}

\* The picked programs on the budgets that end them early and on the one
\* that lets them run longest.
FairContracts ==
    {[code |-> c, gas |-> g] : c \in Picked, g \in (0..SmallGas) \cup {MidGas}}

\* The programs on the large budget, the one that fills the stack among
\* them.
BigContracts ==
    {[code |-> c, gas |-> BigGas] : c \in (Picked \ {Loop}) \cup Costly}

\* The contracts Run is invoked on: a code and its gas budget.
Contracts ==
    {[code |-> c, gas |-> g] : c \in Short, g \in 0..SmallGas}
    \cup PickedContracts
    \cup BigContracts

\* ------------------------------------------------------------------ actions

Top == frames[Len(frames)]

\* The locals of Run in a frame: what an iteration can change.
Locals(f) ==
    [pc |-> f.pc, stack |-> f.stack, mem |-> f.mem, gas |-> f.gas,
     op |-> f.op, cost |-> f.cost, budget |-> f.budget,
     charged |-> f.charged, returned |-> f.returned, calls |-> f.calls,
     logged |-> f.logged, traced |-> f.traced, captured |-> f.captured]

\* The record of an iteration of the loop of the running frame: the frame
\* and the world state as the iteration found them, the frame as it left
\* it, the error and the output Run returned if the iteration ended the
\* invocation, and whether the execution function was dispatched.
Iteration(post, how, err, ret, executed) ==
    [kind |-> "step", pre |-> Locals(Top),
     post |-> Locals(RunDeferredCapture(post, err)), how |-> how,
     err |-> err,
     ret |-> ret, executed |-> executed, stateDB |-> stateDB,
     address |-> Top.address, level |-> Len(frames), abort |-> abort,
     returnData |-> returnData,
     callerGas |-> IF Len(frames) > 1 THEN frames[Len(frames) - 1].gas
                   ELSE 0]

\* The record of a transition that is no iteration of a loop.
NoIteration(kind) ==
    [kind |-> kind, pre |-> Locals(NewFrame(0, <<>>, 0, [outer |-> TRUE])),
     post |-> Locals(NewFrame(0, <<>>, 0, [outer |-> TRUE])), how |-> "none",
     err |-> "nil", ret |-> <<>>, executed |-> FALSE, stateDB |-> stateDB,
     address |-> 0, level |-> Len(frames), abort |-> abort,
     returnData |-> returnData, callerGas |-> 0]

\* The frames with the running one replaced by f.
WithTop(f) == [frames EXCEPT ![Len(frames)] = f]

\* opCall once evm.Call has returned (ret, returnGas, err), and the rest of
\* the caller's step: the success flag is pushed, the output is copied to
\* memory, the gas left over is taken back, and the loop moves to the next
\* opcode.
Resume(caller, call, ret, returnGas, err) ==
    [caller EXCEPT
        !.stack = Append(@, IF err # "nil" THEN 0 ELSE 1),
        !.mem   = IF err \in {"nil", "execution reverted"}
                  THEN MemSet(@, call.retOffset, call.retSize, ret) ELSE @,
        !.gas   = @ + returnGas,
        !.returned = @ + returnGas,
        !.pc    = @ + 1]

\* Variant of ReturnGas that hands back what is left whatever the error.
ReturnGasAlways(gas, err) == gas

\* evm.Call, the gas it hands back to the caller: what the callee left when
\* it ended without an error or reverted, nothing when it failed.
ReturnGas(gas, err) ==
    IF err \in {"nil", "execution reverted"} THEN gas ELSE 0

\* Run on entry: in.evm.depth++.
DepthIncrement(d) == d + 1

\* Variant of DepthDecrement that leaves the depth as it is.
DepthDecrementSkipped(d) == d

\* Run on every return, deferred at entry: in.evm.depth--.
DepthDecrement(d) == d - 1

\* Run returns (ret, err) from the frame f, the world state being db and the
\* return data rd: the depth is decremented; the outermost invocation hands
\* its result out, a nested one hands it to evm.Call, which on an error
\* reverts the world state to its snapshot and, unless the error is a revert,
\* takes the gas that is left.
Leave(f, db, rd, ret, err) ==
    /\ depth' = DepthDecrement(depth)
    /\ IF Len(frames) = 1
       THEN /\ frames' = <<>>
            /\ result' = [status |-> "returned", ret |-> ret, err |-> err,
                          gas |-> f.gas]
            /\ stateDB' = db
            /\ returnData' = rd
       ELSE /\ frames' = Append(SubSeq(frames, 1, Len(frames) - 2),
                    Resume(frames[Len(frames) - 1], f.call, ret,
                           ReturnGas(f.gas, err), err))
            /\ stateDB' = IF err # "nil" THEN f.call.snapshot ELSE db
            /\ returnData' = IF JumpTable(cfg.JumpTable, CALL).returns
                             THEN ret ELSE rd
            /\ UNCHANGED result

\* Variant of DepthExceeded that lets one more frame in.
DepthExceededLate(d) == d > CallCreateDepth + 1

\* evm.Call, the check made before Run is entered: a call issued at a depth
\* exceeding CallCreateDepth is rejected.
DepthExceeded(d) == d > CallCreateDepth

\* opCall and evm.Call from the frame f, whose step has charged the gas and
\* resized the memory: the operands are popped, a call deeper than
\* CallCreateDepth fails, the value is transferred, and Run is entered on the
\* code of the callee (an account without code returns at once).
Call(f) ==
    LET st     == f.stack
        gas    == callGasTemp' + (IF Back(st, 2) # 0 THEN CallStipend ELSE 0)
        popped == [f EXCEPT !.stack = Drop(st, 7), !.calls = @ + 1]
        call   == [retOffset |-> Back(st, 5), retSize |-> Back(st, 6),
                   snapshot |-> stateDB]
        moved  == [stateDB EXCEPT !.transferred = @ + Back(st, 2)]
    IN
    /\ UNCHANGED result
    /\ IF DepthExceeded(depth)
       THEN /\ frames' = WithTop(Resume(popped, call, <<>>, gas,
                                        "max call depth exceeded"))
            /\ returnData' = IF JumpTable(cfg.JumpTable, CALL).returns
                             THEN <<>> ELSE returnData
            /\ UNCHANGED <<depth, stateDB>>
       ELSE IF AccountCode(Back(st, 1)) = <<>>
       THEN /\ frames' = WithTop(Resume(popped, call, <<>>, gas, "nil"))
            /\ returnData' = <<>>
            /\ stateDB' = moved
            /\ UNCHANGED depth
       ELSE /\ frames' = Append(WithTop(popped),
                                NewFrame(Back(st, 1), AccountCode(Back(st, 1)),
                                         gas, call))
            /\ returnData' = <<>>
            /\ stateDB' = moved
            /\ depth' = DepthIncrement(depth)

\* Variant of Classify that returns the return data with an error.
ClassifyErrorReturnsData(f, operation, e, rd) ==
    IF e.err # "nil"
    THEN /\ Leave(f, e.stateDB, rd, rd, e.err)
         /\ last' = Iteration(f, "failed", e.err, rd, TRUE)
    ELSE IF operation.reverts
    THEN /\ Leave(f, e.stateDB, rd, e.res, "execution reverted")
         /\ last' = Iteration(f, "reverted", "execution reverted", e.res, TRUE)
    ELSE IF operation.halts
    THEN /\ Leave(f, e.stateDB, rd, e.res, "nil")
         /\ last' = Iteration(f, "halted", "nil", e.res, TRUE)
    ELSE /\ frames' = WithTop([f EXCEPT !.pc = IF operation.jumps
                                                THEN @ ELSE @ + 1])
         /\ stateDB' = e.stateDB
         /\ returnData' = rd
         /\ last' = Iteration([f EXCEPT !.pc = IF operation.jumps
                                               THEN @ ELSE @ + 1],
                              "continued", "nil", <<>>, TRUE)
         /\ UNCHANGED <<depth, result>>

\* Variant of Classify that takes the gas of a frame that reverts.
ClassifyRevertTakesGas(f, operation, e, rd) ==
    IF e.err # "nil"
    THEN /\ Leave(f, e.stateDB, rd, <<>>, e.err)
         /\ last' = Iteration(f, "failed", e.err, <<>>, TRUE)
    ELSE IF operation.reverts
    THEN /\ Leave([f EXCEPT !.gas = 0], e.stateDB, rd, e.res,
                  "execution reverted")
         /\ last' = Iteration([f EXCEPT !.gas = 0], "reverted",
                              "execution reverted", e.res, TRUE)
    ELSE IF operation.halts
    THEN /\ Leave(f, e.stateDB, rd, e.res, "nil")
         /\ last' = Iteration(f, "halted", "nil", e.res, TRUE)
    ELSE /\ frames' = WithTop([f EXCEPT !.pc = IF operation.jumps
                                                THEN @ ELSE @ + 1])
         /\ stateDB' = e.stateDB
         /\ returnData' = rd
         /\ last' = Iteration([f EXCEPT !.pc = IF operation.jumps
                                               THEN @ ELSE @ + 1],
                              "continued", "nil", <<>>, TRUE)
         /\ UNCHANGED <<depth, result>>

\* Variant of Classify that takes a reverting operation for a halting one.
ClassifyRevertAsHalt(f, operation, e, rd) ==
    IF e.err # "nil"
    THEN /\ Leave(f, e.stateDB, rd, <<>>, e.err)
         /\ last' = Iteration(f, "failed", e.err, <<>>, TRUE)
    ELSE IF operation.reverts \/ operation.halts
    THEN /\ Leave(f, e.stateDB, rd, e.res, "nil")
         /\ last' = Iteration(f, "halted", "nil", e.res, TRUE)
    ELSE /\ frames' = WithTop([f EXCEPT !.pc = IF operation.jumps
                                                THEN @ ELSE @ + 1])
         /\ stateDB' = e.stateDB
         /\ returnData' = rd
         /\ last' = Iteration([f EXCEPT !.pc = IF operation.jumps
                                               THEN @ ELSE @ + 1],
                              "continued", "nil", <<>>, TRUE)
         /\ UNCHANGED <<depth, result>>

\* Variant of Classify that looks at the halts flag first, then at the
\* reverts flag, then at the error.
ClassifyFlagsFirst(f, operation, e, rd) ==
    IF operation.halts
    THEN /\ Leave(f, e.stateDB, rd, e.res, "nil")
         /\ last' = Iteration(f, "halted", "nil", e.res, TRUE)
    ELSE IF operation.reverts
    THEN /\ Leave(f, e.stateDB, rd, e.res, "execution reverted")
         /\ last' = Iteration(f, "reverted", "execution reverted", e.res, TRUE)
    ELSE IF e.err # "nil"
    THEN /\ Leave(f, e.stateDB, rd, <<>>, e.err)
         /\ last' = Iteration(f, "failed", e.err, <<>>, TRUE)
    ELSE /\ frames' = WithTop([f EXCEPT !.pc = IF operation.jumps
                                                THEN @ ELSE @ + 1])
         /\ stateDB' = e.stateDB
         /\ returnData' = rd
         /\ last' = Iteration([f EXCEPT !.pc = IF operation.jumps
                                               THEN @ ELSE @ + 1],
                              "continued", "nil", <<>>, TRUE)
         /\ UNCHANGED <<depth, result>>

\* Variant of Classify that moves past the opcode after every step.
ClassifyAlwaysAdvances(f, operation, e, rd) ==
    IF e.err # "nil"
    THEN /\ Leave(f, e.stateDB, rd, <<>>, e.err)
         /\ last' = Iteration(f, "failed", e.err, <<>>, TRUE)
    ELSE IF operation.reverts
    THEN /\ Leave(f, e.stateDB, rd, e.res, "execution reverted")
         /\ last' = Iteration(f, "reverted", "execution reverted", e.res, TRUE)
    ELSE IF operation.halts
    THEN /\ Leave(f, e.stateDB, rd, e.res, "nil")
         /\ last' = Iteration(f, "halted", "nil", e.res, TRUE)
    ELSE /\ frames' = WithTop([f EXCEPT !.pc = @ + 1])
         /\ stateDB' = e.stateDB
         /\ returnData' = rd
         /\ last' = Iteration([f EXCEPT !.pc = @ + 1],
                              "continued", "nil", <<>>, TRUE)
         /\ UNCHANGED <<depth, result>>

\* Run, the outcome of the executed step e of the frame f: an error or a
\* revert or a halt ends the invocation, else the loop goes on, past the
\* opcode unless the operation jumps.
Classify(f, operation, e, rd) ==
    IF e.err # "nil"
    THEN /\ Leave(f, e.stateDB, rd, <<>>, e.err)
         /\ last' = Iteration(f, "failed", e.err, <<>>, TRUE)
    ELSE IF operation.reverts
    THEN /\ Leave(f, e.stateDB, rd, e.res, "execution reverted")
         /\ last' = Iteration(f, "reverted", "execution reverted", e.res, TRUE)
    ELSE IF operation.halts
    THEN /\ Leave(f, e.stateDB, rd, e.res, "nil")
         /\ last' = Iteration(f, "halted", "nil", e.res, TRUE)
    ELSE /\ frames' = WithTop([f EXCEPT !.pc = IF operation.jumps
                                                THEN @ ELSE @ + 1])
         /\ stateDB' = e.stateDB
         /\ returnData' = rd
         /\ last' = Iteration([f EXCEPT !.pc = IF operation.jumps
                                               THEN @ ELSE @ + 1],
                              "continued", "nil", <<>>, TRUE)
         /\ UNCHANGED <<depth, result>>

\* Variant of Dispatch that keeps the return data when the execution failed.
DispatchKeepsOnError(f, operation, e) ==
    \E g \in {[f EXCEPT !.pc = e.pc, !.stack = e.stack, !.mem = e.mem]} :
        Classify(g, operation, e,
                 IF operation.returns /\ e.err = "nil"
                 THEN e.res ELSE returnData)

\* Run, the operation of the frame f executed with the result e: the frame
\* takes the program counter, the stack and the memory of e, the return data
\* are set to the output of e when the operation is flagged returns, and the
\* outcome is classified.
Dispatch(f, operation, e) ==
    \E g \in {[f EXCEPT !.pc = e.pc, !.stack = e.stack, !.mem = e.mem]} :
        Classify(g, operation, e,
                 IF operation.returns THEN e.res ELSE returnData)

\* Variant of Failed that takes the gas of the frame.
FailedTakesGas(f, err) ==
    /\ Leave([f EXCEPT !.gas = 0], stateDB, returnData, <<>>, err)
    /\ last' = Iteration([f EXCEPT !.gas = 0], "failed", err, <<>>, FALSE)
    /\ UNCHANGED callGasTemp

\* Run, a step that one of the checks before its gas fails with err.
Failed(f, err) ==
    /\ Leave(f, stateDB, returnData, <<>>, err)
    /\ last' = Iteration(f, "failed", err, <<>>, FALSE)
    /\ UNCHANGED callGasTemp

\* Run, the step of the operation once its gas is settled as p: out of gas,
\* or the operation is executed.
Stepped(p, operation) ==
    /\ callGasTemp' = IF p.temp THEN Back(Top.stack, 0) ELSE callGasTemp
    /\ IF p.err # "nil"
       THEN /\ Leave(p.f, stateDB, returnData, <<>>, p.err)
            /\ last' = Iteration(p.f, "failed", p.err, <<>>, FALSE)
       ELSE \E g \in {RunCapture(p.f)} :
            IF g.op = CALL
            THEN /\ Call(g)
                 /\ last' = Iteration(g, "called", "nil", <<>>, TRUE)
            ELSE \E e \in {execute(g.op, g)} : Dispatch(g, operation, e)

\* Variant of Checked that looks at the gas before the restrictions.
CheckedGasFirst(f, operation, check) ==
    IF check # "nil"
    THEN IF /\ check = "write protection"
            /\ ~RunMemorySize(operation, f.stack).overflow
            /\ RunUseGas(operation, f,
                         RunMemorySize(operation, f.stack).memorySize).err
                   # "nil"
         THEN Failed(f, "out of gas")
         ELSE Failed(f, check)
    ELSE \E memSize \in {RunMemorySize(operation, f.stack).memorySize} :
         \E used \in {RunUseGas(operation, f, memSize)} :
         \E p \in {Charged(f, memSize, used)} :
             Stepped(p, operation)

\* Run, the step of the frame f, whose opcode is fetched, on its operation:
\* the checks, then the memory size, the gas and the execution.
Checked(f, operation, check) ==
    IF check # "nil"
    THEN Failed(f, check)
    ELSE \E memSize \in {RunMemorySize(operation, f.stack).memorySize} :
         \E used \in {RunUseGas(operation, f, memSize)} :
         \E p \in {Charged(f, memSize, used)} :
             Stepped(p, operation)

\* Variant of LoopCondition that does not read the abort flag.
LoopConditionAlways == TRUE

\* Run, the condition of its loop: the abort flag is unset.
LoopCondition == abort = 0

\* One iteration of the loop of Run, the abort flag being unset: the opcode
\* is fetched and its operation looked up, checked, charged, executed and
\* its outcome classified.
Step ==
    /\ frames # <<>>
    /\ LoopCondition
    /\ \E f \in {RunBegin(Top)} :
       \E operation \in {JumpTable(cfg.JumpTable, f.op)} :
       \E check \in {RunCheck(f.op, operation, f.stack)} :
           Checked(f, operation, check)
    /\ UNCHANGED <<cfg, chainRules, readOnly, abort, outer, first, runs>>

\* Variant of AbortExit that clears the abort flag on its way out.
AbortExitResets ==
    /\ frames # <<>>
    /\ ~LoopCondition
    /\ Leave(Top, stateDB, returnData, <<>>, "nil")
    /\ last' = [Iteration(Top, "aborted", "nil", <<>>, FALSE)
                    EXCEPT !.kind = "aborted"]
    /\ abort' = 0
    /\ UNCHANGED <<cfg, chainRules, readOnly, callGasTemp, outer,
                   first, runs>>

\* Variant of AbortExit that returns an error of its own.
AbortExitReportsAbort ==
    /\ frames # <<>>
    /\ ~LoopCondition
    /\ Leave(Top, stateDB, returnData, <<>>, "aborted")
    /\ last' = [Iteration(Top, "aborted", "aborted", <<>>, FALSE)
                    EXCEPT !.kind = "aborted"]
    /\ UNCHANGED <<cfg, chainRules, readOnly, abort, callGasTemp, outer,
                   first, runs>>

\* The loop of Run finds the abort flag set: Run returns no output and no
\* error.
AbortExit ==
    /\ frames # <<>>
    /\ ~LoopCondition
    /\ Leave(Top, stateDB, returnData, <<>>, "nil")
    /\ last' = [Iteration(Top, "aborted", "nil", <<>>, FALSE)
                    EXCEPT !.kind = "aborted"]
    /\ UNCHANGED <<cfg, chainRules, readOnly, abort, callGasTemp, outer,
                   first, runs>>

\* Another thread cancels the EVM.
Cancel ==
    /\ abort = 0
    /\ abort' = 1
    /\ UNCHANGED <<cfg, chainRules, readOnly, returnData, depth, stateDB,
                   callGasTemp, frames, outer, result, first, runs, last>>

\* Variant of Enter that keeps the return data of the invocation before.
EnterKeepReturnData(code, gas, db) ==
    /\ returnData' = returnData
    /\ stateDB' = db
    /\ IF Len(code) = 0
       THEN /\ result' = [status |-> "returned", ret |-> <<>>, err |-> "nil",
                          gas |-> gas]
            /\ UNCHANGED <<frames, depth>>
       ELSE /\ frames' = <<NewFrame(Outer, code, gas, [outer |-> TRUE])>>
            /\ depth' = DepthIncrement(depth)
            /\ result' = [result EXCEPT !.status = "running"]

\* Variant of Enter that runs the loop on a contract without code too.
EnterWithoutCodeCheck(code, gas, db) ==
    /\ returnData' = <<>>
    /\ stateDB' = db
    /\ frames' = <<NewFrame(Outer, code, gas, [outer |-> TRUE])>>
    /\ depth' = DepthIncrement(depth)
    /\ result' = [result EXCEPT !.status = "running"]

\* Run is entered on the contract (code, gas) with the world state db: the
\* depth is incremented and the return data reset; a contract without code
\* returns at once.
Enter(code, gas, db) ==
    /\ returnData' = <<>>
    /\ stateDB' = db
    /\ IF Len(code) = 0
       THEN /\ result' = [status |-> "returned", ret |-> <<>>, err |-> "nil",
                          gas |-> gas]
            /\ UNCHANGED <<frames, depth>>
       ELSE /\ frames' = <<NewFrame(Outer, code, gas, [outer |-> TRUE])>>
            /\ depth' = DepthIncrement(depth)
            /\ result' = [result EXCEPT !.status = "running"]

\* The first outermost invocation of Run, on one of the given contracts.
RunOn(contracts) ==
    /\ runs = 0
    /\ \E c \in contracts :
          /\ outer' = [code |-> c.code, gas |-> c.gas, stateDB |-> stateDB]
          /\ Enter(c.code, c.gas, stateDB)
    /\ runs' = 1
    /\ last' = NoIteration("entered")
    /\ UNCHANGED <<cfg, chainRules, readOnly, abort, callGasTemp, first>>

\* The first outermost invocation of Run, on any of the contracts.
Run == RunOn(Contracts)

\* The first outermost invocation of Run, on a picked program and budget.
RunPicked == RunOn(PickedContracts)

\* The first outermost invocation of Run, on a picked program and one of
\* the budgets of FairContracts.
RunFair == RunOn(FairContracts)

\* The first outermost invocation of Run, on a program and the large budget.
RunBig == RunOn(BigContracts)

\* Run is invoked again with the same contract, gas budget and world state
\* as the first time.
RunAgain ==
    /\ runs = 1
    /\ result.status = "returned"
    /\ first' = result
    /\ Enter(outer.code, outer.gas, outer.stateDB)
    /\ runs' = runs + 1
    /\ last' = NoIteration("entered")
    /\ UNCHANGED <<cfg, chainRules, readOnly, abort, callGasTemp, outer>>

\* Run is invoked with the same contract, gas budget and world state as the
\* first time by an interpreter whose configuration differs in Debug alone;
\* first keeps what the first invocation returned and the stack and memory
\* it ended with.
RunOther ==
    /\ runs = 1
    /\ result.status = "returned"
    /\ first' = [result |-> result, stack |-> last.post.stack,
                 mem |-> last.post.mem]
    /\ cfg' = [cfg EXCEPT !.Debug = ~@]
    /\ Enter(outer.code, outer.gas, outer.stateDB)
    /\ runs' = runs + 1
    /\ last' = NoIteration("entered")
    /\ UNCHANGED <<chainRules, readOnly, abort, callGasTemp, outer>>

Configs ==
    [Debug : {FALSE}, DisableGasMetering : BOOLEAN,
     JumpTable : {"unset", "homestead", "byzantium"}]

\* The configurations with and without a tracer.
DebugConfigs ==
    [Debug : BOOLEAN, DisableGasMetering : BOOLEAN,
     JumpTable : {"unset", "homestead", "byzantium"}]

\* The configurations with a table of the caller's own among the tables.
TableConfigs ==
    [Debug : {FALSE}, DisableGasMetering : BOOLEAN,
     JumpTable : {"homestead", "byzantium", "flagged"}]

\* The state after NewInterpreter on one of the configurations.
InitOn(configs) ==
    /\ chainRules \in [IsByzantium : BOOLEAN]
    /\ cfg \in {NewInterpreter(c) : c \in configs}
    /\ readOnly \in BOOLEAN
    /\ returnData = <<>>
    /\ depth = 0
    /\ abort = 0
    /\ stateDB = [storage |-> <<>>, logs |-> <<>>, transferred |-> 0]
    /\ callGasTemp = 0
    /\ frames = <<>>
    /\ outer = [code |-> <<>>, gas |-> 0, stateDB |-> stateDB]
    /\ result = [status |-> "idle", ret |-> <<>>, err |-> "nil", gas |-> 0]
    /\ first = result
    /\ runs = 0
    /\ last = NoIteration("none")

Init == InitOn(Configs)

Next == Run \/ RunAgain \/ Step \/ AbortExit \/ Cancel

Spec == Init /\ [][Next]_vars

\* One invocation of Run on a picked program.
FairNext == RunFair \/ Step \/ AbortExit \/ Cancel

\* The thread that runs the interpreter keeps running: the loop of Run
\* takes its next iteration, or its exit once the abort flag is set.
FairSpec ==
    Init /\ [][FairNext]_vars /\ WF_vars(Step) /\ WF_vars(AbortExit)

\* One invocation of Run on a picked program, with or without a tracer.
TraceNext == RunPicked \/ Step \/ AbortExit \/ Cancel

TraceSpec == InitOn(DebugConfigs) /\ [][TraceNext]_vars

\* A program is run by an interpreter with a tracer and by one without, the
\* abort flag unset.
DebugNext == RunPicked \/ Step \/ RunOther

DebugSpec == InitOn(DebugConfigs) /\ [][DebugNext]_vars

\* One invocation of Run on a program with the gas to fill its stack.
StackNext == RunBig \/ Step \/ AbortExit \/ Cancel

StackSpec == Init /\ [][StackNext]_vars

\* One invocation of Run on a picked program, under one of the tables.
TableSpec == InitOn(TableConfigs) /\ [][TraceNext]_vars

\* The chain of nested calls seen through the depth alone, each frame being
\* a contract that calls on: evm.Call lets the call in and Run is entered.
Descend ==
    /\ ~DepthExceeded(depth)
    /\ depth' = DepthIncrement(depth)
    /\ last' = [NoIteration("entered") EXCEPT !.level = depth']
    /\ UNCHANGED <<cfg, chainRules, readOnly, returnData, abort, stateDB,
                   callGasTemp, frames, outer, result, first, runs>>

\* evm.Call rejects the call issued by the innermost frame: Run is not
\* entered.
Rejected ==
    /\ DepthExceeded(depth)
    /\ last' = [NoIteration("rejected") EXCEPT !.level = depth]
    /\ UNCHANGED <<cfg, chainRules, readOnly, returnData, depth, abort,
                   stateDB, callGasTemp, frames, outer, result, first, runs>>

\* The innermost frame returns.
Ascend ==
    /\ depth > 0
    /\ depth' = DepthDecrement(depth)
    /\ last' = [NoIteration("left") EXCEPT !.level = depth]
    /\ UNCHANGED <<cfg, chainRules, readOnly, returnData, abort, stateDB,
                   callGasTemp, frames, outer, result, first, runs>>

DepthNext == Descend \/ Rejected \/ Ascend

\* Calls nested as deep as evm.Call lets them.
DepthSpec == Init /\ [][DepthNext]_vars


\* --------------------------------------------------------------- properties

\* The descriptor the last iteration looked up for its opcode.
LastOperation == JumpTable(cfg.JumpTable, last.post.op)

\* Whether the last iteration left stack, memory, program counter and gas
\* of its frame as it found them and did not dispatch the execution function.
LastUntouched ==
    /\ ~last.executed
    /\ last.post.stack = last.pre.stack
    /\ last.post.mem = last.pre.mem
    /\ last.post.pc = last.pre.pc
    /\ last.post.gas = last.pre.gas

\* C5: in every reachable state the stack of every frame, running or just
\* left, holds at most StackLimit (1024) entries.
StackWithinLimit ==
    /\ \A i \in 1..Len(frames) : Len(frames[i].stack) <= StackLimit
    /\ Len(last.post.stack) <= StackLimit

\* A step met a stack of exactly StackLimit entries and was refused a push.
StackAtLimit ==
    /\ last.kind = "step"
    /\ Len(last.pre.stack) = StackLimit
    /\ last.err = "stack limit reached"
    /\ Len(last.post.stack) = StackLimit

\* C6: a step of an opcode that needs more operands than the stack holds
\* fails with stack underflow, a step that would leave more than StackLimit
\* entries fails with stack limit reached, and either leaves stack, memory,
\* program counter and gas as they were, with nothing executed.
StackErrorsBeforeGas ==
    last.kind = "step" =>
        /\ Len(last.pre.stack) < LastOperation.pop =>
               last.err = "stack underflow" /\ LastUntouched
        /\ ( /\ Len(last.pre.stack) >= LastOperation.pop
             /\ Len(last.pre.stack) + LastOperation.push - LastOperation.pop
                    > StackLimit ) =>
               last.err = "stack limit reached" /\ LastUntouched

\* A step that underflowed with gas in hand that its opcode would have cost.
UnderflowWithGas ==
    /\ last.kind = "step"
    /\ last.err = "stack underflow"
    /\ last.post.op = ADD
    /\ last.pre.gas >= GasFastestStep
    /\ ~cfg.DisableGasMetering


\* Whether the last iteration got past the validity and stack checks of its
\* opcode, so that it came to the restrictions.
LastCameToRestrictions ==
    /\ last.kind = "step"
    /\ LastOperation.valid
    /\ validateStack(LastOperation, last.pre.stack) = "nil"

\* C7, as stated: in static mode under Byzantium rules every step of an
\* operation flagged writes fails with write protection, untouched.
WritesAlwaysProtected ==
    ( /\ last.kind = "step"
      /\ chainRules.IsByzantium /\ readOnly
      /\ LastOperation.writes ) =>
        last.err = "write protection" /\ LastUntouched

\* C7: in static mode under Byzantium rules a step of an operation flagged
\* writes whose stack passes validation fails with write protection; it
\* charges no gas, resizes no memory, executes nothing and leaves the world
\* state as it was. A step whose stack fails validation fails with the stack
\* error instead, equally untouched.
WritesProtected ==
    ( /\ last.kind = "step"
      /\ chainRules.IsByzantium /\ readOnly
      /\ LastOperation.writes ) =>
        /\ last.err = IF validateStack(LastOperation, last.pre.stack) = "nil"
                      THEN "write protection"
                      ELSE validateStack(LastOperation, last.pre.stack)
        /\ LastUntouched
        /\ last.level = 1 => stateDB = last.stateDB

\* A log with operands, gas and memory to grow was refused in static mode.
LogProtected ==
    /\ last.kind = "step"
    /\ chainRules.IsByzantium /\ readOnly
    /\ last.post.op = LOG0
    /\ last.err = "write protection"
    /\ last.pre.gas = BigGas - 2 * GasFastestStep
    /\ Back(last.pre.stack, 1) > Len(last.pre.mem)

\* C8, as stated: in static mode under Byzantium rules a CALL step whose
\* third stack item from the top is nonzero fails with write protection.
CallValueAlwaysProtected ==
    ( /\ last.kind = "step"
      /\ chainRules.IsByzantium /\ readOnly
      /\ last.post.op = CALL
      /\ Len(last.pre.stack) >= 3
      /\ Back(last.pre.stack, 2) # 0 ) =>
        last.err = "write protection"

\* C8: in static mode under Byzantium rules a CALL step whose stack passes
\* validation fails with write protection when its value operand (the third
\* item from the top) is nonzero and passes the restrictions when it is
\* zero; a step of another opcode that is not flagged writes passes them
\* whatever its third item is.
CallValueProtected ==
    ( /\ LastCameToRestrictions
      /\ chainRules.IsByzantium /\ readOnly ) =>
        /\ (last.post.op = CALL /\ Back(last.pre.stack, 2) # 0) =>
               last.err = "write protection" /\ LastUntouched
        /\ (last.post.op = CALL /\ Back(last.pre.stack, 2) = 0) =>
               last.err # "write protection"
        /\ (last.post.op # CALL /\ ~LastOperation.writes) =>
               last.err # "write protection"

\* A call with a value was refused in static mode.
ValueCallProtected ==
    /\ LastCameToRestrictions
    /\ chainRules.IsByzantium /\ readOnly
    /\ last.post.op = CALL
    /\ Back(last.pre.stack, 2) = 3
    /\ last.err = "write protection"

\* C9: when the chain rules are not Byzantium enforceRestrictions returns no
\* error for any opcode on the stack of the running frame, no step fails
\* with write protection, and a step that came to the restrictions goes on
\* to its gas: it is executed unless its memory size or its gas fail it.
NoRestrictionsBeforeByzantium ==
    ~chainRules.IsByzantium =>
        /\ \A op \in {SSTORE, LOG0, CALL, ADD, STOP, INVALID} :
               (frames # <<>> /\ Len(Top.stack) >= 3) =>
                   enforceRestrictions(op, JumpTable(cfg.JumpTable, op),
                                       Top.stack) = "nil"
        /\ last.err # "write protection"
        /\ LastCameToRestrictions =>
               \/ last.executed
               \/ last.err \in {"out of gas", "gas uint64 overflow"}

\* A call with a value was made in static mode before Byzantium.
ValueCallBeforeByzantium ==
    /\ ~chainRules.IsByzantium /\ readOnly
    /\ last.kind = "step"
    /\ last.post.op = CALL
    /\ Back(last.pre.stack, 2) = 3
    /\ last.how = "called"
    /\ stateDB.transferred = 3


\* C10: a step that executes REVERT ends its invocation with the error
\* execution reverted and the output the bytes of memory its operands name;
\* the outermost invocation returns exactly these, a nested one leaves them
\* as the return data of its caller.
RevertReturnsOutput ==
    (last.kind = "step" /\ last.post.op = REVERT /\ last.executed) =>
        /\ last.how = "reverted"
        /\ last.err = "execution reverted"
        /\ last.ret = MemGet(last.post.mem, Back(last.pre.stack, 0),
                             Back(last.pre.stack, 1))
        /\ last.level = 1 =>
               /\ result.status = "returned"
               /\ result.err = "execution reverted"
               /\ result.ret = last.ret
        /\ last.level > 1 => returnData = last.ret

\* The outermost invocation reverted with three bytes of its memory.
RevertedWithBytes ==
    /\ last.kind = "step" /\ last.post.op = REVERT /\ last.level = 1
    /\ result.status = "returned"
    /\ result.err = "execution reverted"
    /\ result.ret = <<0, 171, 0>>

\* The cost the gas function of the last iteration's operation returns for
\* the frame as the iteration found it.
LastCost ==
    gasCost(LastOperation, last.address, last.pre.stack, last.pre.mem,
            RunMemorySize(LastOperation, last.pre.stack).memorySize,
            last.stateDB.storage)

\* C3, as stated: a step of an opcode of fixed cost c with enough operands
\* and at least c gas succeeds and lowers the gas by exactly c.
FixedCostAlwaysSucceeds ==
    ( /\ last.kind = "step"
      /\ ~cfg.DisableGasMetering
      /\ FixedCost(LastOperation)
      /\ Len(last.pre.stack) >= LastOperation.pop
      /\ last.pre.gas >= LastCost.cost ) =>
        /\ last.err = "nil"
        /\ last.post.gas = last.pre.gas - LastCost.cost

\* C3: with gas metering enabled, a step of an opcode of fixed cost c whose
\* stack passes validation (enough operands, and room for its results) and
\* that the restrictions let through, with at least c gas, is executed
\* and lowers the gas by exactly c, to 0 when the gas was c; it succeeds
\* unless it is a jump to an invalid destination.
FixedCostCharged ==
    ( /\ LastCameToRestrictions
      /\ ~cfg.DisableGasMetering
      /\ FixedCost(LastOperation)
      /\ enforceRestrictions(last.post.op, LastOperation, last.pre.stack) = "nil"
      /\ last.pre.gas >= LastCost.cost ) =>
        /\ last.executed
        /\ last.post.gas = last.pre.gas - LastCost.cost
        /\ last.post.cost = LastCost.cost
        /\ \/ last.err = "nil"
           \/ /\ last.err = "invalid jump destination"
              /\ last.post.op \in {JUMP, JUMPI}

\* A jump ran on exactly the gas it costs and left none.
JumpOnExactGas ==
    /\ last.kind = "step"
    /\ ~cfg.DisableGasMetering
    /\ last.post.op = JUMP
    /\ last.pre.gas = GasMidStep
    /\ last.err = "nil"
    /\ last.post.gas = 0

\* C4: with gas metering enabled, a step that came to its gas and whose
\* computed cost exceeds the gas of its contract fails with out of gas, and
\* leaves memory, stack, program counter and gas as they were, with nothing
\* executed.
OutOfGasUntouched ==
    ( /\ LastCameToRestrictions
      /\ ~cfg.DisableGasMetering
      /\ RunCheck(last.post.op, LastOperation, last.pre.stack) = "nil"
      /\ LastCost.err = "nil"
      /\ LastCost.cost > last.pre.gas ) =>
        /\ last.err = "out of gas"
        /\ LastUntouched
        /\ last.level = 1 => stateDB = last.stateDB

\* A store to memory that had to grow it ran out of gas.
StoreOutOfGas ==
    /\ last.kind = "step"
    /\ last.post.op = MSTORE
    /\ last.err = "out of gas"
    /\ last.pre.mem = <<>>
    /\ last.pre.gas > GasFastestStep
    /\ last.post.cost > last.pre.gas


\* C2: when the same contract is run a second time with the same gas, flags,
\* instruction table and world state, and the abort flag is never set, the
\* second invocation returns the output, the gas and the error of the first.
Deterministic ==
    (runs = 2 /\ result.status = "returned" /\ abort = 0) => result = first

\* Both invocations returned the size of the return data they started with,
\* zero, though the first had left return data behind.
ReplayedAfterReturnData ==
    /\ runs = 2 /\ result.status = "returned" /\ abort = 0
    /\ GetOp(outer.code, 0) = RETURNDATASIZE
    /\ first.ret = <<0>>
    /\ result.ret = <<0>>
    /\ returnData # <<>>

\* C1: with gas metering enabled every invocation of Run that is running
\* eventually returns.
Terminates ==
    (result.status = "running" /\ ~cfg.DisableGasMetering)
        ~> (result.status = "returned")

\* The loop program returned out of gas with the abort flag never set.
LoopRanOutOfGas ==
    /\ outer.code = Loop
    /\ outer.gas = MidGas
    /\ abort = 0
    /\ result.status = "returned"
    /\ result.err = "out of gas"


\* C11: an invocation that ends in revert keeps the gas its steps have not
\* used: the REVERT step deducts its own cost and nothing more, the gas of
\* the frame is the gas it was entered with less the costs deducted by its
\* steps (plus what its calls handed back), the outermost invocation
\* returns with that gas and a nested one hands it back to its caller.
RevertKeepsGas ==
    (last.kind = "step" /\ last.how = "reverted") =>
        /\ last.post.gas = last.pre.gas
                - (IF cfg.DisableGasMetering THEN 0 ELSE LastCost.cost)
        /\ last.post.charged = last.pre.charged
                + (IF cfg.DisableGasMetering THEN 0 ELSE LastCost.cost)
        /\ last.post.gas = last.post.budget - last.post.charged
                               + last.post.returned
        /\ last.level = 1 => result.gas = last.post.gas
        /\ last.level > 1 => Top.gas = last.callerGas + last.post.gas

\* The outermost invocation reverted after steps that cost gas, with gas
\* left.
RevertedWithGasLeft ==
    /\ last.kind = "step" /\ last.how = "reverted" /\ last.level = 1
    /\ ~cfg.DisableGasMetering
    /\ last.post.charged > 2 * GasFastestStep
    /\ last.post.returned = 0
    /\ result.gas > 0
    /\ result.gas = outer.gas - last.post.charged


\* C12: every exit of Run with an error other than the revert returns no
\* output: the iteration that failed returned none, the outermost
\* invocation reports none, and the caller of a nested one is left with no
\* return data.
FailureReturnsNothing ==
    /\ (last.kind = "step" /\ last.how = "failed") =>
           /\ last.ret = <<>>
           /\ last.level > 1 => returnData = <<>>
    /\ ( /\ result.status = "returned"
         /\ result.err \notin {"nil", "execution reverted"} ) =>
           result.ret = <<>>

\* A jump failed in a frame that held the return data of a call, and the
\* invocation returned nothing.
FailedWithReturnData ==
    /\ last.kind = "step" /\ last.how = "failed" /\ last.executed
    /\ last.level = 1
    /\ result.err = "invalid jump destination"
    /\ returnData # <<>>
    /\ result.ret = <<>>


AbortStopsFrame ==
    /\ last.kind = "step" => last.abort = 0
    /\ last.kind = "aborted" =>
           /\ last.abort # 0
           /\ LastUntouched
           /\ last.post = last.pre
           /\ last.ret = <<>> /\ last.err = "nil"
           /\ last.level = 1 =>
                  /\ result.status = "returned"
                  /\ result.ret = <<>>
                  /\ result.gas = last.pre.gas
                  /\ stateDB = last.stateDB

\* A loop that had taken iterations and had gas left found the flag set.
AbortedMidRun ==
    /\ last.kind = "aborted" /\ last.level = 1
    /\ last.pre.pc > 0
    /\ last.pre.gas > 0
    /\ last.pre.stack # <<>>
    /\ result.status = "returned"


\* C15, as stated: the outermost invocation ended by the abort flag returns
\* something other than what a normal halt by STOP returns, no output and
\* no error.
AbortReported ==
    (last.kind = "aborted" /\ last.level = 1) =>
        <<result.ret, result.err>> # <<<<>>, "nil">>

\* C15: the outermost invocation ended by the abort flag returns no output
\* and no error, which is what a normal halt by STOP returns; the abort
\* flag stays set for the caller to read.
AbortReturnsLikeHalt ==
    /\ (last.kind = "aborted" /\ last.level = 1) =>
           /\ <<result.ret, result.err>> = <<<<>>, "nil">>
           /\ abort # 0
    /\ ( /\ last.kind = "step" /\ last.how = "halted"
         /\ last.post.op = STOP /\ last.level = 1 ) =>
           <<result.ret, result.err>> = <<<<>>, "nil">>

\* An invocation aborted before its first iteration returned as a halt does.
AbortedAtEntry ==
    /\ last.kind = "aborted" /\ last.level = 1
    /\ last.pre.pc = 0 /\ last.pre.stack = <<>>
    /\ result.status = "returned"
    /\ result.err = "nil"
    /\ abort # 0


\* C16: no step of the interpreter writes the abort flag, only the other
\* thread sets it and nothing clears it; once it is set, the only thing an
\* active frame does is terminate, innermost first, and no invocation
\* executes a step.
AbortIsFinal ==
    [][ /\ abort' # abort =>
               /\ abort = 0 /\ abort' # 0
               /\ UNCHANGED <<returnData, depth, stateDB, callGasTemp,
                              frames, result, runs, last>>
        /\ abort # 0 =>
               /\ last'.kind # "step"
               /\ frames # <<>> =>
                      /\ last'.kind = "aborted"
                      /\ Len(frames') = Len(frames) - 1
                      /\ depth' = depth - 1
      ]_vars

\* A nested frame was terminated by the abort flag while its caller is
\* still active.
NestedAborted ==
    /\ last.kind = "aborted" /\ last.level = 2
    /\ Len(frames) = 1
    /\ abort # 0


\* C17: the depth counts the invocations of Run that are active, one
\* increment for each entry and one decrement for each return, whatever the
\* way out (halt, revert, error, abort, no code): a frame that has left gives
\* the depth back as it was before it was entered, and after the outermost
\* Run has returned the depth is what it was before the call.
DepthRestored ==
    /\ depth = Len(frames)
    /\ result.status = "returned" => depth = 0
    /\ ( \/ last.kind = "aborted"
         \/ /\ last.kind = "step"
            /\ last.how \in {"halted", "reverted", "failed"} ) =>
           depth = last.level - 1

\* A nested invocation has left with an error: the depth is back to what it
\* was when its caller issued the call.
DepthBackAfterNestedFailure ==
    /\ last.kind = "step" /\ last.how = "failed" /\ last.level = 2
    /\ Len(frames) = 1
    /\ depth = 1


LastMemorySize == memorySize(LastOperation, last.pre.stack)

\* C19: the memory of every frame is a whole number of 32-byte words at all
\* times, and a step that needs memory leaves it at least as large as the
\* bytes it asked for; when it grows, it grows to that size rounded up to
\* the next multiple of 32.
MemoryInWords ==
    /\ \A i \in 1..Len(frames) : Len(frames[i].mem) % 32 = 0
    /\ last.kind = "step" =>
           Len(last.pre.mem) % 32 = 0 /\ Len(last.post.mem) % 32 = 0
    /\ ( /\ last.kind = "step" /\ last.executed
         /\ LastOperation.memorySize # "nil" ) =>
           /\ Len(last.post.mem) >= LastMemorySize
           /\ Len(last.post.mem) > Len(last.pre.mem) =>
                  Len(last.post.mem) < LastMemorySize + 32

\* A step asked for a size that is no multiple of 32 and the memory grew to
\* the next one.
MemoryRoundedUp ==
    /\ last.kind = "step" /\ last.executed
    /\ LastMemorySize % 32 # 0
    /\ Len(last.pre.mem) < LastMemorySize
    /\ Len(last.post.mem) = 32 * (LastMemorySize \div 32 + 1)

\* C20: from one state to the next the memory of a frame never gets
\* smaller, and a step that asks for no more memory than its frame has
\* leaves the size as it is.
MemoryNeverShrinks ==
    /\ [](last.kind = "step" =>
            /\ Len(last.post.mem) >= Len(last.pre.mem)
            /\ (last.executed /\ LastMemorySize <= Len(last.pre.mem)) =>
                   Len(last.post.mem) = Len(last.pre.mem))
    /\ [][\A i \in 1..Len(frames) :
             i <= Len(frames') =>
                 Len(frames'[i].mem) >= Len(frames[i].mem)]_vars

\* A step asked for memory below the size its frame had grown to, and the
\* size stayed.
MemoryKeptOnSmallerRequest ==
    /\ last.kind = "step" /\ last.executed
    /\ LastMemorySize > 0
    /\ 32 * ((LastMemorySize + 31) \div 32) < Len(last.pre.mem)
    /\ Len(last.post.mem) = Len(last.pre.mem)


\* What the last iteration was charged apart from memory: the fixed part of
\* its cost, the cost of its log data, the gas it handed to its callee.
LastCostApartFromMemory ==
    CASE LastOperation.gasCost \in {"mload", "mstore", "mstore8"} ->
            GasFastestStep
      [] LastOperation.gasCost \in {"return", "revert"} -> 0
      [] LastOperation.gasCost = "log0" ->
            LogGas + LogDataGas * Back(last.pre.stack, 1)
      [] LastOperation.gasCost = "call" ->
            CallGas + Back(last.pre.stack, 0)
            + (IF Back(last.pre.stack, 2) # 0 THEN CallValueTransferGas ELSE 0)
      [] OTHER -> last.post.cost

\* Whether the last iteration was a metered step on memory that got as far
\* as its execution function.
LastTouchedMemory ==
    /\ last.kind = "step" /\ last.executed
    /\ ~cfg.DisableGasMetering
    /\ LastOperation.memorySize # "nil"

\* The words of memory before and after the last iteration.
LastWordsBefore == Len(last.pre.mem) \div 32
LastWordsAfter == Len(last.post.mem) \div 32

LastCameToMemorySize ==
    /\ LastCameToRestrictions
    /\ enforceRestrictions(last.post.op, LastOperation, last.pre.stack) = "nil"
    /\ LastOperation.memorySize # "nil"

\* The least multiple of 32 that is no less than the bytes the last
\* iteration asked for.
LastRoundedSize == 32 * ((LastMemorySize + 31) \div 32)

\* C22: a step whose memory size does not fit a uint64, or whose size
\* rounded up to a multiple of 32 does not, fails with gas uint64 overflow,
\* charged nothing, its memory, stack, program counter and gas as they were
\* and nothing executed; a step whose sizes fit and that comes to be
\* executed has its memory no smaller than the least multiple of 32 that
\* holds what it asked for, and no larger unless it was so before.
MemorySizeOverflowFails ==
    LastCameToMemorySize =>
        /\ (LastMemorySize > MaxUint64 \/ LastRoundedSize > MaxUint64) =>
               /\ last.err = "gas uint64 overflow"
               /\ last.how = "failed"
               /\ LastUntouched
               /\ last.post.charged = last.pre.charged
        /\ ( /\ LastMemorySize <= MaxUint64 /\ LastRoundedSize <= MaxUint64
             /\ last.executed ) =>
               Len(last.post.mem) = Max(Len(last.pre.mem), LastRoundedSize)

\* A step asked for a size that fits a uint64 while its rounding does not,
\* and failed with gas in hand.
RoundingOverflowed ==
    /\ LastCameToMemorySize
    /\ LastMemorySize <= MaxUint64
    /\ LastRoundedSize > MaxUint64
    /\ last.err = "gas uint64 overflow"
    /\ last.pre.gas > GasFastestStep


\* Whether Run was invoked on the code [PUSH1 1, PUSH1 2, ADD, STOP] with a
\* gas budget of 10, under the Homestead table and with gas metering on, and
\* has returned from a step of its loop.
AddScenarioReturned ==
    /\ outer.code = <<PUSH1, 1, PUSH1, 2, ADD, STOP>>
    /\ outer.gas = 10
    /\ cfg.JumpTable = "homestead"
    /\ ~cfg.DisableGasMetering
    /\ result.status = "returned"
    /\ last.kind = "step" /\ last.level = 1

\* C23: the code [PUSH1 1, PUSH1 2, ADD, STOP] run with 10 gas under the
\* Homestead table ends normally, without error and without output, the
\* stack holding 3 on top, 9 gas consumed and 1 gas left.
AddScenario ==
    AddScenarioReturned =>
        /\ last.how = "halted" /\ last.post.op = STOP
        /\ result.err = "nil" /\ result.ret = <<>>
        /\ last.post.stack # <<>>
        /\ Back(last.post.stack, 0) = 3
        /\ last.post.charged = 9
        /\ outer.gas - result.gas = 9
        /\ result.gas = 1

\* The scenario has run to its STOP.
AddScenarioHalted ==
    /\ AddScenarioReturned
    /\ last.post.pc = 5
    /\ result.gas = 1


\* C24: a step whose opcode the instruction table in use does not hold, as
\* 0x0c under either table, fails with invalid opcode and no output: nothing
\* is charged, nothing executed, and stack, memory, program counter and gas
\* are as they were; when it is the step of the outermost frame, Run returns
\* that error with no output and the gas untouched.
InvalidOpcodeFails ==
    (last.kind = "step" /\ (~LastOperation.valid \/ last.post.op = INVALID)) =>
        /\ last.err = "invalid opcode"
        /\ last.how = "failed"
        /\ last.ret = <<>>
        /\ LastUntouched
        /\ last.post.charged = last.pre.charged
        /\ last.level = 1 =>
               /\ result.status = "returned"
               /\ result.err = "invalid opcode"
               /\ result.ret = <<>>
               /\ result.gas = last.pre.gas

\* A code that begins with 0x0c failed on its first step under the
\* Homestead table, with gas in hand.
InvalidFirstOpcode ==
    /\ last.kind = "step"
    /\ cfg.JumpTable = "homestead"
    /\ outer.code # <<>> /\ outer.code[1] = INVALID
    /\ last.level = 1 /\ last.pre.pc = 0
    /\ last.post.op = INVALID
    /\ last.pre.gas > 0
    /\ result.err = "invalid opcode"
    /\ ~last.executed


\* The code of the frame of the last iteration.
LastCode ==
    IF last.level = 1 THEN outer.code ELSE AccountCode(last.address)

\* C25: an iteration that finds the program counter at or past the end of
\* the code fetches STOP: it halts the invocation without error and without
\* output, stack, memory and gas as they were.
PastEndIsStop ==
    (last.kind = "step" /\ last.pre.pc >= Len(LastCode)) =>
        /\ last.post.op = STOP
        /\ last.how = "halted"
        /\ last.err = "nil" /\ last.ret = <<>>
        /\ last.post.stack = last.pre.stack
        /\ last.post.mem = last.pre.mem
        /\ last.post.gas = last.pre.gas
        /\ last.level = 1 =>
               /\ result.status = "returned"
               /\ result.err = "nil" /\ result.ret = <<>>

\* A code that ends in a PUSH1 without its byte was halted with the program
\* counter past its end.
HaltedPastEnd ==
    /\ last.kind = "step" /\ last.level = 1
    /\ last.pre.pc > Len(outer.code)
    /\ last.how = "halted"
    /\ result.status = "returned" /\ result.err = "nil"


TracedOncePerStep ==
    /\ last.kind = "step" =>
           /\ last.post.traced = (IF cfg.Debug THEN 1 ELSE 0)
           /\ cfg.Debug => (last.post.logged <=> last.executed)
           /\ ~cfg.Debug => ~last.post.logged
    /\ last.kind = "aborted" => last.post.traced = last.pre.traced

\* With a tracer attached, a step was captured before its execution and the
\* execution failed.
TracedStepFailedInExecution ==
    /\ cfg.Debug
    /\ last.kind = "step" /\ last.executed
    /\ last.how = "failed"
    /\ last.post.logged
    /\ last.post.traced = 1


\* C28: with gas metering disabled no step computes a cost or deducts one:
\* the cost and the gas of the frame are after every step what they were
\* before it, no frame has been charged anything, and no step fails with out
\* of gas.
NoMeteringNoCharge ==
    cfg.DisableGasMetering =>
        /\ last.kind = "step" =>
               /\ last.err # "out of gas"
               /\ last.post.cost = last.pre.cost
               /\ last.post.gas = last.pre.gas
               /\ last.post.charged = last.pre.charged
        /\ \A i \in 1..Len(frames) :
               /\ frames[i].charged = 0
               /\ frames[i].cost = 0
               /\ frames[i].gas = frames[i].budget + frames[i].returned

\* With gas metering disabled, a store was executed in a frame whose gas is
\* less than the store costs.
StoredWithoutGas ==
    /\ cfg.DisableGasMetering
    /\ last.kind = "step" /\ last.executed
    /\ last.post.op = SSTORE
    /\ last.pre.gas < SstoreResetGas
    /\ last.err = "nil"


\* The program counter the execution function of the last iteration left:
\* past the immediate bytes of a push, at the destination of a jump that is
\* taken, past the opcode of a conditional jump that is not, and where it
\* was for every other opcode.
LastExecutedPc ==
    CASE last.post.op = PUSH1 -> last.pre.pc + 1
      [] last.post.op = PUSH2 -> last.pre.pc + 2
      [] last.post.op = PUSH4 -> last.pre.pc + 4
      [] last.post.op = JUMP  -> Back(last.pre.stack, 0)
      [] last.post.op = JUMPI ->
            IF Back(last.pre.stack, 1) # 0 THEN Back(last.pre.stack, 0)
            ELSE last.pre.pc + 1
      [] OTHER -> last.pre.pc

\* C29: after a step that was executed and neither failed, reverted nor
\* halted, the program counter is the one the execution function left when
\* the operation is flagged jumps, and that one plus 1 when it is not.
PcAdvancesUnlessJumps ==
    (last.kind = "step" /\ last.how = "continued") =>
        /\ LastOperation.jumps => last.post.pc = LastExecutedPc
        /\ ~LastOperation.jumps => last.post.pc = LastExecutedPc + 1

\* A conditional jump was not taken: the execution function moved past the
\* opcode and the loop added nothing.
JumpNotTaken ==
    /\ last.kind = "step" /\ last.how = "continued"
    /\ last.post.op = JUMPI
    /\ Back(last.pre.stack, 1) = 0
    /\ last.post.pc = last.pre.pc + 1


\* Whether the execution function of the last iteration returned an error:
\* a jump that is taken to a position that is no JUMPDEST of the code.
LastExecutionFailed ==
    /\ last.post.op \in {JUMP, JUMPI}
    /\ last.post.op = JUMPI => Back(last.pre.stack, 1) # 0
    /\ ~ValidJumpdest(LastCode, Back(last.pre.stack, 0))

\* The bytes the execution function of the last iteration produced: the
\* range of memory a RETURN or a REVERT names, nothing for another opcode.
LastProduced ==
    IF last.post.op \in {RETURN, REVERT}
    THEN MemGet(last.post.mem, Back(last.pre.stack, 0), Back(last.pre.stack, 1))
    ELSE <<>>

\* C30: the outcome of an executed step is settled in this order: an error
\* of the execution function fails the frame with no output, whatever the
\* flags of the operation; else the reverts flag ends it as a revert with
\* the output produced, whatever the halts flag; else the halts flag ends it
\* normally with the output produced; else the loop goes on.
OutcomePrecedence ==
    (last.kind = "step" /\ last.executed /\ last.how # "called") =>
        IF LastExecutionFailed
        THEN /\ last.how = "failed"
             /\ last.err = "invalid jump destination"
             /\ last.ret = <<>>
        ELSE IF LastOperation.reverts
        THEN /\ last.how = "reverted"
             /\ last.err = "execution reverted"
             /\ last.ret = LastProduced
        ELSE IF LastOperation.halts
        THEN /\ last.how = "halted"
             /\ last.err = "nil"
             /\ last.ret = LastProduced
        ELSE /\ last.how = "continued"
             /\ last.err = "nil"

\* The execution function of an operation flagged reverts and halts
\* returned an error, and the frame failed.
FailedThoughFlagged ==
    /\ last.kind = "step" /\ last.executed
    /\ LastOperation.reverts /\ LastOperation.halts
    /\ LastExecutionFailed
    /\ last.how = "failed"


\* Whether the last iteration met an operation it may not apply: a write, or
\* a call that transfers value, in static mode under the Byzantium rules.
LastRestricted ==
    /\ chainRules.IsByzantium /\ readOnly
    /\ \/ LastOperation.writes
       \/ last.post.op = CALL /\ Back(last.pre.stack, 2) # 0

\* Whether the memory size of the last iteration overflows a uint64.
LastMemoryOverflows ==
    /\ LastOperation.memorySize # "nil"
    /\ (LastMemorySize > MaxUint64 \/ LastRoundedSize > MaxUint64)

\* Whether the last iteration, metered, cannot pay: its gas function fails
\* or asks for more than the gas of the frame.
LastCannotPay ==
    /\ ~cfg.DisableGasMetering
    /\ (LastCost.err # "nil" \/ LastCost.cost > last.pre.gas)

\* C31: a step reports the first failure that holds of invalid opcode, stack
\* underflow or overflow, write protection, memory size overflow and out of
\* gas, in this order, and is executed when none holds.
FailuresInOrder ==
    last.kind = "step" =>
        IF ~LastOperation.valid
        THEN last.err = "invalid opcode"
        ELSE IF validateStack(LastOperation, last.pre.stack) # "nil"
        THEN last.err = validateStack(LastOperation, last.pre.stack)
        ELSE IF LastRestricted
        THEN last.err = "write protection"
        ELSE IF LastMemoryOverflows
        THEN last.err = "gas uint64 overflow"
        ELSE IF LastCannotPay
        THEN last.err = "out of gas"
        ELSE last.executed

\* A store in static mode under the Byzantium rules, with less gas than it
\* costs, failed with write protection.
ProtectedBeforeOutOfGas ==
    /\ last.kind = "step"
    /\ last.post.op = SSTORE
    /\ validateStack(LastOperation, last.pre.stack) = "nil"
    /\ LastRestricted
    /\ LastCannotPay
    /\ last.err = "write protection"


\* Whether the last iteration came to its gas function with metering on:
\* none of the checks before the gas failed it.
LastCameToGas ==
    /\ LastCameToRestrictions
    /\ ~LastRestricted
    /\ ~LastMemoryOverflows
    /\ ~cfg.DisableGasMetering

\* C32: a step whose gas function returns an error fails with out of gas,
\* whatever that error is and however much gas the frame has: nothing is
\* deducted, the memory is not resized and nothing is executed.
GasFunctionErrorIsOutOfGas ==
    (LastCameToGas /\ LastCost.err # "nil") =>
        /\ last.err = "out of gas"
        /\ last.how = "failed"
        /\ LastUntouched
        /\ last.post.charged = last.pre.charged

\* A call that asked for more gas than a uint64 holds failed with out of
\* gas in a frame with gas to spare.
CallGasOverflowed ==
    /\ LastCameToGas
    /\ last.post.op = CALL
    /\ Back(last.pre.stack, 0) > MaxUint64
    /\ LastCost.err = "gas uint64 overflow"
    /\ last.pre.gas > CallGas
    /\ last.err = "out of gas"

\* Whether the tracer was called for the last iteration.
LastTraced ==
    /\ last.kind = "step"
    /\ last.post.traced > 0

\* C33: the tracer receives the state before the step: the program counter
\* of the step, the gas before the cost of the step was deducted and a copy
\* of the stack with the entries, in their order, that the step found; a
\* step that was not executed leaves the stack as the copy found it.
TracerReceivesPreStepState ==
    LastTraced =>
        /\ last.post.captured.pc = last.pre.pc
        /\ last.post.captured.gas = last.pre.gas
        /\ last.post.captured.stack = last.pre.stack
        /\ ~last.executed => last.post.stack = last.pre.stack

\* The tracer was called for a step that then moved the program counter,
\* took its gas and changed a stack of several distinct entries.
TracedStepThatChangedAll ==
    /\ LastTraced
    /\ last.executed
    /\ Len(last.pre.stack) >= 2
    /\ last.pre.stack[1] # last.pre.stack[Len(last.pre.stack)]
    /\ last.post.stack # last.pre.stack
    /\ last.post.pc # last.pre.pc
    /\ last.post.gas < last.pre.gas

\* Whether an invocation and the same invocation by an interpreter with the
\* other setting of Debug have both returned.
BothReturned ==
    /\ runs = 2
    /\ result.status = "returned"
    /\ outer.code # <<>>

\* C34: tracing does not affect execution: an invocation run with Debug on
\* and with Debug off returns the same output, the same error and the same
\* remaining gas, and ends with the same stack and the same memory.
TracingDoesNotAffectExecution ==
    BothReturned =>
        /\ result = first.result
        /\ last.post.stack = first.stack
        /\ last.post.mem = first.mem

\* A program that took gas and wrote memory returned an output from it both
\* with and without a tracer.
TracedAndUntracedAgree ==
    /\ BothReturned
    /\ result.ret # <<>>
    /\ result.gas < outer.gas
    /\ last.post.mem # <<>>
    /\ result = first.result

\* Whether the last transition ended a nested invocation, which completes
\* the step of the CALL that made it.
LastEndedCall ==
    /\ last.kind \in {"step", "aborted"}
    /\ last.level > 1
    /\ last.how \in {"failed", "reverted", "halted", "aborted"}

\* C35: the return data are cleared when an invocation is entered, are set
\* to the result of a step when the operation of the step is flagged
\* returns, whether or not the step returned an error, and are left as they
\* were by the step of every other operation.
ReturnDataFollowsReturns ==
    /\ last.kind = "entered" => returnData = <<>>
    /\ (last.kind = "step" /\ last.how = "called") => returnData = <<>>
    /\ LastEndedCall => returnData = last.ret
    /\ (last.kind = "step" /\ last.how # "called" /\ ~LastEndedCall) =>
           returnData = IF last.executed /\ LastOperation.returns
                        THEN LastProduced
                        ELSE last.returnData

\* A jump flagged returns failed in a frame that held the return data of a
\* call, and the return data were set to its empty result.
FailedStepSetReturnData ==
    /\ last.kind = "step" /\ last.executed
    /\ LastOperation.returns
    /\ LastExecutionFailed
    /\ last.returnData # <<>>
    /\ returnData = <<>>

\* Whether a frame has the empty stack, the empty memory and the program
\* counter 0 that Run declares.
Fresh(f) ==
    /\ f.stack = <<>>
    /\ f.mem = <<>>
    /\ f.pc = 0

\* C36: every invocation, nested or not, starts with an empty stack, an
\* empty memory and the program counter 0, and no step of a nested
\* invocation changes a frame below it: a return changes the frame of the
\* caller alone, and that by the CALL that resumes.
FramesAreSeparate ==
    [][ /\ Len(frames') = Len(frames) + 1 =>
               /\ Fresh(frames'[Len(frames')])
               /\ \A i \in 1..(Len(frames) - 1) : frames'[i] = frames[i]
        /\ (Len(frames') = Len(frames) /\ Len(frames) > 1) =>
               \A i \in 1..(Len(frames) - 1) : frames'[i] = frames[i]
        /\ Len(frames') = Len(frames) - 1 =>
               \A i \in 1..(Len(frames) - 2) : frames'[i] = frames[i]
      ]_vars

\* A nested invocation has moved its program counter and pushed on its stack
\* while the frame that called it holds a memory and a program counter of
\* its own.
NestedFrameAtWork ==
    /\ Len(frames) >= 2
    /\ Top.pc > 0
    /\ Top.stack # <<>>
    /\ frames[1].pc > Top.pc
    /\ frames[1].mem # <<>>
    /\ Top.mem = <<>>

\* C37: Run on a contract without code returns at once with no output and
\* no error, whatever the abort flag, the static flag and the gas are: no
\* step is executed, no gas is charged, the tracer is not called and the
\* depth is as it was.
EmptyCodeReturnsAtOnce ==
    (runs = 1 /\ outer.code = <<>>) =>
        /\ result = [status |-> "returned", ret |-> <<>>, err |-> "nil",
                     gas |-> outer.gas]
        /\ frames = <<>>
        /\ depth = 0
        /\ last.kind # "step"
        /\ last.post.traced = 0
        /\ stateDB = outer.stateDB

\* A contract without code and without gas was run in static mode by an
\* interpreter with a tracer, the abort flag set, and returned.
EmptyCodeRunWhileAborted ==
    /\ runs = 1 /\ outer.code = <<>>
    /\ last.kind = "entered"
    /\ abort # 0
    /\ readOnly
    /\ cfg.Debug
    /\ outer.gas = 0
    /\ result.status = "returned"

\* C38: whenever the tracer is called for a step, the cost it is given is
\* the cost computed for that step, or 0 when the step failed before its
\* cost was computed; it is never the cost of an earlier step.
TracerCostIsOfTheStep ==
    LastTraced =>
        last.post.captured.cost = IF LastCameToGas THEN LastCost.cost ELSE 0

\* A step failed before its cost was computed, after a step that had a
\* cost, and the tracer was given the cost of that earlier step.
TracerGivenEarlierCost ==
    /\ LastTraced
    /\ last.how = "failed"
    /\ ~LastCameToGas
    /\ ~cfg.DisableGasMetering
    /\ last.pre.cost > 0
    /\ last.post.captured.cost = last.pre.cost

\* Whether the gas of a frame is the gas it was entered with less the costs
\* of the steps charged, and lies between zero and that budget.
GasAccounted(f) ==
    /\ f.budget = f.gas + f.charged
    /\ f.gas <= f.budget
    /\ f.gas >= 0
    /\ f.gas <= MaxUint64

\* C39: with gas metering on, in every state of a frame that has made no
\* nested call the gas it was entered with is the gas that remains plus the
\* costs of the steps charged so far; the gas that remains never exceeds
\* the budget and never wraps below zero.
GasBudgetConserved ==
    ~cfg.DisableGasMetering =>
        /\ \A i \in 1..Len(frames) :
               frames[i].calls = 0 => GasAccounted(frames[i])
        /\ (last.kind = "step" /\ last.post.calls = 0) =>
               /\ GasAccounted(last.post)
               /\ last.post.budget = last.pre.budget

\* A frame that made no call was charged some steps and then refused a step
\* it could not pay, keeping the gas it had left.
RefusedWithGasLeft ==
    /\ ~cfg.DisableGasMetering
    /\ last.kind = "step"
    /\ last.err = "out of gas"
    /\ last.post.calls = 0
    /\ last.post.charged > 2 * GasFastestStep
    /\ last.post.gas > 0
    /\ last.post.gas = last.pre.gas

====
